---- MODULE Spec2Model ----
(***************************************************************************)
(* A model of the scoring and aggregation pipeline of kstock-dashboard:     *)
(* the four Level 1 dimension scorers (agents/*.py), the Level 1            *)
(* aggregation (agents/test_level1_all.py, daily_level1_*.py) and the       *)
(* three-level orchestration (agent_orchestrator.py, agent_spawner.py).     *)
(*                                                                         *)
(* Units.  The scorers compare floating-point figures against fixed         *)
(* breakpoints; the model keeps every figure as an integer in the unit in   *)
(* which the code compares it:                                              *)
(*   - a fraction the code multiplies by 100 (returnOnEquity, margins,      *)
(*     growth rates, dividendYield, ...) is kept in percent;                *)
(*   - a ratio compared against breakpoints with two decimals (beta,        *)
(*     currentRatio, priceToBook, pegRatio, volume ratios, %B) is kept in   *)
(*     hundredths;                                                          *)
(*   - marketCap is kept in units of 10^12 won.                             *)
(* A Python exception is the outcome RAISED of the operator it leaves.      *)
(***************************************************************************)
EXTENDS Integers, Sequences, FiniteSets, TLC

Min(a, b) == IF a < b THEN a ELSE b
Max(a, b) == IF a > b THEN a ELSE b

\* What one sub-dimension function returns: (score, signals, risks).  points
\* is the value of its local `score` at the return statement, before the
\* min(score, 25) or max(score, 0) of that statement.
Out(score, signals, risks) ==
    [raised |-> FALSE, score |-> score, points |-> score, signals |-> signals,
     risks |-> risks]

\* return min(score, 25), signals, risks
Capped(points, signals, risks) ==
    [Out(Min(points, 25), signals, risks) EXCEPT !.points = points]

\* return max(score, 0), signals, risks
Floored(points, signals, risks) ==
    [Out(Max(points, 0), signals, risks) EXCEPT !.points = points]

\* The function was left by an exception.
RAISED ==
    [raised |-> TRUE, score |-> 0, points |-> 0, signals |-> <<>>, risks |-> <<>>]

\* A conditional append: lst.append(x) under a condition.
App(cond, x) == IF cond THEN <<x>> ELSE <<>>

(***************************************************************************)
(* TechnicalAnalysisAgent.  d is the indicator frame after                  *)
(* calculate_indicators: d.rows is len(self.data.dropna()), the other       *)
(* fields are the cells of the last rows the scoring functions read.        *)
(***************************************************************************)

\* The points of analyze_price_trend before the final min(score, 25).
price_trend_points(d) ==
    LET ma_aligned == d.MA5 > d.MA20 /\ d.MA20 > d.MA60
        ma_golden  == d.MA5 > d.MA20 /\ d.prevMA5 <= d.prevMA20
        align == IF ma_aligned THEN 10
                 ELSE IF d.MA5 > d.MA20 THEN 6
                 ELSE IF d.MA5 < d.MA20 /\ d.MA20 < d.MA60 THEN 2
                 ELSE 0
        golden == IF ma_golden THEN 3 ELSE 0
        above == (IF d.Close > d.MA5 THEN 3 ELSE 0)
               + (IF d.Close > d.MA20 THEN 3 ELSE 0)
               + (IF d.Close > d.MA60 THEN 2 ELSE 0)
        slope == IF d.ma20_slope > 20 THEN 7
                 ELSE IF d.ma20_slope > 5 THEN 4
                 ELSE IF d.ma20_slope > -5 THEN 2
                 ELSE 0
    IN  align + golden + above + slope

\* analyze_price_trend returning its points without the final min(score, 25).
analyze_price_trend_uncapped(d) ==
    IF d.rows < 60
    THEN Out(12, <<"data insufficient">>, <<"not enough trading days">>)
    ELSE Out(price_trend_points(d), <<>>, <<>>)

analyze_price_trend(d) ==
    IF d.rows < 60
    THEN Out(12, <<"data insufficient">>, <<"not enough trading days">>)
    ELSE
    LET ma_aligned == d.MA5 > d.MA20 /\ d.MA20 > d.MA60
        ma_golden  == d.MA5 > d.MA20 /\ d.prevMA5 <= d.prevMA20
        signals ==
            App(ma_aligned, "aligned 5>20>60")
            \o App(~ma_aligned /\ d.MA5 > d.MA20, "short aligned 5>20")
            \o App(ma_golden, "golden cross")
            \o App(d.Close > d.MA5, "price > MA5")
            \o App(d.Close > d.MA20, "price > MA20")
            \o App(d.Close > d.MA60, "price > MA60")
            \o App(d.ma20_slope > 20, "strong uptrend")
            \o App(d.ma20_slope <= 20 /\ d.ma20_slope > 5, "uptrend")
            \o App(d.ma20_slope <= 5 /\ d.ma20_slope > -5, "sideways")
        risks ==
            App(~(d.MA5 > d.MA20) /\ d.MA5 < d.MA20 /\ d.MA20 < d.MA60,
                "inverted 5<20<60")
            \o App(~(d.MA5 > d.MA20) /\ ~(d.MA5 < d.MA20 /\ d.MA20 < d.MA60),
                   "moving averages mixed")
            \o App(d.Close < d.MA60, "price below MA60")
            \o App(d.ma20_slope <= -5, "downtrend")
    IN  Capped(price_trend_points(d), signals, risks)

\* The points of analyze_momentum before the final min(score, 25).
momentum_points(d) ==
    LET hist      == d.MACD - d.MACD_Signal
        prev_hist == d.prevMACD - d.prevMACD_Signal
        macd_bull == d.MACD > d.MACD_Signal
        macd_cross == macd_bull /\ d.prevMACD <= d.prevMACD_Signal
        macd_positive == d.MACD > 0
        hist_growing == hist > prev_hist
        rsi == IF 50 < d.RSI /\ d.RSI < 70 THEN 8
               ELSE IF d.RSI >= 70 THEN 4
               ELSE IF d.RSI > 30 THEN 4
               ELSE 0
        macd == IF macd_cross THEN 10
                ELSE IF macd_bull /\ macd_positive THEN 8
                ELSE IF macd_bull THEN 5
                ELSE IF macd_positive THEN 3
                ELSE 0
        histp == IF hist_growing /\ hist > 0 THEN 7
                 ELSE IF hist_growing THEN 4
                 ELSE IF hist > 0 THEN 3
                 ELSE 0
    IN  rsi + macd + histp

analyze_momentum(d) ==
    IF d.rows < 26
    THEN Out(12, <<"data insufficient">>, <<"not enough trading days">>)
    ELSE
    LET hist      == d.MACD - d.MACD_Signal
        prev_hist == d.prevMACD - d.prevMACD_Signal
        macd_bull == d.MACD > d.MACD_Signal
        macd_cross == macd_bull /\ d.prevMACD <= d.prevMACD_Signal
        macd_positive == d.MACD > 0
        hist_growing == hist > prev_hist
        good == 50 < d.RSI /\ d.RSI < 70
        signals ==
            App(good, "RSI good")
            \o App(~good /\ d.RSI >= 70, "RSI overbought")
            \o App(~good /\ d.RSI < 70 /\ d.RSI > 30, "RSI recovering")
            \o App(macd_cross, "MACD golden cross")
            \o App(~macd_cross /\ macd_bull /\ macd_positive, "MACD rising")
            \o App(~macd_cross /\ macd_bull /\ ~macd_positive, "MACD buy signal")
            \o App(~macd_bull /\ macd_positive, "MACD above zero")
            \o App(hist_growing /\ hist > 0, "MACD momentum stronger")
            \o App(hist_growing /\ ~(hist > 0), "MACD momentum improving")
            \o App(~hist_growing /\ hist > 0, "MACD positive")
        risks ==
            App(~good /\ d.RSI >= 70, "RSI overbought zone")
            \o App(~good /\ d.RSI <= 30, "RSI oversold")
            \o App(~macd_bull /\ ~macd_positive, "MACD weak")
    IN  Capped(momentum_points(d), signals, risks)

\* The points of analyze_bollinger before the final min(score, 25).  The
\* widths are compared as bb_width < avg_width * 0.6 and
\* bb_width > avg_width * 1.5, here with both sides times 10.
bollinger_points(d) ==
    LET is_squeeze  == 10 * d.BB_Width < 6 * d.avg_width
        was_squeeze == 10 * d.prevBB_Width < 6 * d.avg_width
        bb_trend == d.MA20 > d.prevMA20
        pos == IF 40 <= d.BB_Position /\ d.BB_Position <= 60 THEN 10
               ELSE IF 20 <= d.BB_Position /\ d.BB_Position < 40 THEN 8
               ELSE IF 60 < d.BB_Position /\ d.BB_Position <= 80 THEN 7
               ELSE IF d.BB_Position > 80 THEN 4
               ELSE 3
        width == IF is_squeeze /\ ~was_squeeze THEN 8
                 ELSE IF is_squeeze THEN 6
                 ELSE IF 10 * d.BB_Width > 15 * d.avg_width THEN 4
                 ELSE 5
        dir == IF bb_trend /\ d.BB_Position > 50 THEN 7
               ELSE IF bb_trend THEN 5
               ELSE IF d.BB_Position > 50 THEN 3
               ELSE 0
    IN  pos + width + dir

analyze_bollinger(d) ==
    IF d.rows < 20
    THEN Out(12, <<"data insufficient">>, <<"not enough trading days">>)
    ELSE
    LET is_squeeze  == 10 * d.BB_Width < 6 * d.avg_width
        was_squeeze == 10 * d.prevBB_Width < 6 * d.avg_width
        bb_trend == d.MA20 > d.prevMA20
        p == d.BB_Position
        signals ==
            App(40 <= p /\ p <= 60, "neutral zone")
            \o App(20 <= p /\ p < 40, "near lower band")
            \o App(60 < p /\ p <= 80, "near upper band")
            \o App(p > 80, "above upper band")
            \o App(p < 20, "below lower band")
            \o App(is_squeeze /\ ~was_squeeze, "squeeze entered")
            \o App(is_squeeze /\ was_squeeze, "squeeze continues")
            \o App(~is_squeeze /\ 10 * d.BB_Width > 15 * d.avg_width,
                   "band expanding")
            \o App(~is_squeeze /\ ~(10 * d.BB_Width > 15 * d.avg_width),
                   "normal band width")
            \o App(bb_trend /\ p > 50, "rising band, upper half")
            \o App(bb_trend /\ ~(p > 50), "rising band")
            \o App(~bb_trend /\ p > 50, "falling band, upper half")
        risks ==
            App(p > 80, "upper band broken")
            \o App(p < 20, "lower band lost")
            \o App(~bb_trend /\ ~(p > 50), "falling band, lower half")
    IN  Capped(bollinger_points(d), signals, risks)

\* The points of analyze_volume before the final min(score, 25).
volume_points(d) ==
    LET ratio == IF d.Volume_Ratio >= 200 THEN 10
                 ELSE IF d.Volume_Ratio >= 150 THEN 8
                 ELSE IF d.Volume_Ratio >= 100 THEN 6
                 ELSE IF d.Volume_Ratio >= 70 THEN 3
                 ELSE 0
        trend == IF d.vol_trend > 130 THEN 8
                 ELSE IF d.vol_trend > 110 THEN 5
                 ELSE IF d.vol_trend > 90 THEN 3
                 ELSE 0
        obv == IF d.obv_up /\ d.price_up THEN 7
               ELSE IF d.obv_up THEN 5
               ELSE IF d.price_up THEN 3
               ELSE 0
    IN  ratio + trend + obv

\* analyze_volume with a default of 15 points on a short history.
analyze_volume_default_15(d) ==
    IF d.rows < 20
    THEN Out(15, <<"data insufficient">>, <<"not enough trading days">>)
    ELSE Capped(volume_points(d), <<>>, <<>>)

analyze_volume(d) ==
    IF d.rows < 20
    THEN Out(12, <<"data insufficient">>, <<"not enough trading days">>)
    ELSE
    LET r == d.Volume_Ratio
        t == d.vol_trend
        signals ==
            App(r >= 200, "volume burst")
            \o App(r < 200 /\ r >= 150, "volume up")
            \o App(r < 150 /\ r >= 100, "above average")
            \o App(r < 100 /\ r >= 70, "below average")
            \o App(t > 130, "volume trend up")
            \o App(t <= 130 /\ t > 110, "volume fine")
            \o App(t <= 110 /\ t > 90, "volume steady")
            \o App(d.obv_up /\ d.price_up, "OBV and price up")
            \o App(d.obv_up /\ ~d.price_up, "OBV up")
            \o App(~d.obv_up /\ d.price_up, "price up, OBV unconfirmed")
        risks ==
            App(r < 70, "volume weak")
            \o App(t <= 90, "volume trend down")
            \o App(~d.obv_up /\ d.price_up, "OBV divergence")
            \o App(~d.obv_up /\ ~d.price_up, "OBV down")
    IN  Capped(volume_points(d), signals, risks)

(***************************************************************************)
(* A value of the `info` dictionary yfinance returns.  A key can be absent, *)
(* or present with None, with a float NaN, with a number or with a string.  *)
(***************************************************************************)
Absent  == [tag |-> "absent", v |-> 0]
NoneV   == [tag |-> "None", v |-> 0]
NaN     == [tag |-> "nan", v |-> 0]
Num(n)  == [tag |-> "num", v |-> n]
AbsentS == [tag |-> "absent", s |-> ""]
NoneS   == [tag |-> "None", s |-> ""]
Str(s)  == [tag |-> "str", s |-> s]

(***************************************************************************)
(* QuantAnalysisAgent.  info maps each key the agent reads to its value.    *)
(***************************************************************************)

\* get_metric: the default when the key is absent, None or NaN.
get_metric(info, key, default) ==
    LET value == info[key]
    IN  IF value.tag = "absent" THEN default
        ELSE IF value.tag = "None" \/ value.tag = "nan" THEN default
        ELSE value.v

analyze_profitability(info) ==
    LET roe == get_metric(info, "returnOnEquity", 0)
        roa == get_metric(info, "returnOnAssets", 0)
        op_margin == get_metric(info, "operatingMargins", 0)
        net_margin == get_metric(info, "profitMargins", 0)
        s1 == IF roe >= 20 THEN 8 ELSE IF roe >= 15 THEN 6
              ELSE IF roe >= 10 THEN 4 ELSE IF roe > 0 THEN 2 ELSE 0
        s2 == IF roa >= 10 THEN 5 ELSE IF roa >= 5 THEN 3
              ELSE IF roa > 0 THEN 1 ELSE 0
        s3 == IF op_margin >= 20 THEN 6 ELSE IF op_margin >= 10 THEN 4
              ELSE IF op_margin >= 5 THEN 2 ELSE IF op_margin > 0 THEN 1 ELSE 0
        s4 == IF net_margin >= 15 THEN 6 ELSE IF net_margin >= 8 THEN 4
              ELSE IF net_margin >= 3 THEN 2 ELSE IF net_margin > 0 THEN 1 ELSE 0
        signals ==
            App(roe >= 20, "ROE excellent")
            \o App(roe < 20 /\ roe >= 15, "ROE good")
            \o App(roe < 15 /\ roe >= 10, "ROE average")
            \o App(roe < 10 /\ roe > 0, "ROE low")
            \o App(roa >= 10, "ROA excellent")
            \o App(roa < 10 /\ roa >= 5, "ROA good")
            \o App(op_margin >= 20, "operating margin excellent")
            \o App(op_margin < 20 /\ op_margin >= 10, "operating margin good")
            \o App(op_margin < 10 /\ op_margin >= 5, "operating margin average")
            \o App(net_margin >= 15, "net margin excellent")
            \o App(net_margin < 15 /\ net_margin >= 8, "net margin good")
        risks ==
            App(roe <= 0, "ROE poor")
            \o App(roa <= 0, "ROA poor")
            \o App(op_margin <= 0, "operating margin poor")
            \o App(net_margin <= 0, "net margin negative")
    IN  Capped(s1 + s2 + s3 + s4, signals, risks)

analyze_growth(info) ==
    LET revenue_growth == get_metric(info, "revenueGrowth", 0)
        earnings_growth == get_metric(info, "earningsGrowth", 0)
        eps_growth == get_metric(info, "earningsQuarterlyGrowth", 0)
        s1 == IF revenue_growth >= 30 THEN 10 ELSE IF revenue_growth >= 15 THEN 8
              ELSE IF revenue_growth >= 5 THEN 5
              ELSE IF revenue_growth > 0 THEN 2 ELSE 0
        s2 == IF earnings_growth >= 30 THEN 8 ELSE IF earnings_growth >= 15 THEN 6
              ELSE IF earnings_growth >= 5 THEN 3
              ELSE IF earnings_growth > 0 THEN 1 ELSE 0
        s3 == IF eps_growth >= 25 THEN 7 ELSE IF eps_growth >= 10 THEN 5
              ELSE IF eps_growth > 0 THEN 2 ELSE 0
        signals ==
            App(revenue_growth >= 30, "revenue high growth")
            \o App(revenue_growth < 30 /\ revenue_growth >= 15, "revenue growth")
            \o App(revenue_growth < 15 /\ revenue_growth >= 5, "revenue stable")
            \o App(earnings_growth >= 30, "earnings high growth")
            \o App(earnings_growth < 30 /\ earnings_growth >= 15, "earnings growth")
            \o App(eps_growth >= 25, "EPS high growth")
            \o App(eps_growth < 25 /\ eps_growth >= 10, "EPS growth")
        risks ==
            App(revenue_growth <= 0, "revenue falling")
            \o App(earnings_growth <= 0, "earnings falling")
            \o App(eps_growth <= 0, "EPS falling")
    IN  Capped(s1 + s2 + s3, signals, risks)

\* cf_margin = operating_cf / total_revenue * 100 when total_revenue > 0,
\* else 0; it is compared against 15, 8 and 0, here with both sides times
\* total_revenue.
analyze_stability(info) ==
    LET debt_to_equity == get_metric(info, "debtToEquity", 100)
        current_ratio == get_metric(info, "currentRatio", 100)
        operating_cf == get_metric(info, "operatingCashflow", 0)
        total_revenue == get_metric(info, "totalRevenue", 1)
        has_rev == total_revenue > 0
        cf_ge15 == has_rev /\ 100 * operating_cf >= 15 * total_revenue
        cf_ge8  == has_rev /\ 100 * operating_cf >= 8 * total_revenue
        cf_gt0  == has_rev /\ operating_cf > 0
        s1 == IF debt_to_equity <= 50 THEN 10 ELSE IF debt_to_equity <= 100 THEN 7
              ELSE IF debt_to_equity <= 150 THEN 4
              ELSE IF debt_to_equity <= 200 THEN 2 ELSE 0
        s2 == IF current_ratio >= 200 THEN 8 ELSE IF current_ratio >= 150 THEN 6
              ELSE IF current_ratio >= 100 THEN 3 ELSE 0
        s3 == IF cf_ge15 THEN 7 ELSE IF cf_ge8 THEN 5 ELSE IF cf_gt0 THEN 2 ELSE 0
        signals ==
            App(debt_to_equity <= 50, "debt ratio excellent")
            \o App(debt_to_equity > 50 /\ debt_to_equity <= 100, "debt ratio good")
            \o App(debt_to_equity > 100 /\ debt_to_equity <= 150, "debt ratio average")
            \o App(current_ratio >= 200, "current ratio excellent")
            \o App(current_ratio < 200 /\ current_ratio >= 150, "current ratio good")
            \o App(cf_ge15, "cash generation excellent")
            \o App(~cf_ge15 /\ cf_ge8, "cash generation good")
        risks ==
            App(debt_to_equity > 150 /\ debt_to_equity <= 200, "debt ratio high")
            \o App(debt_to_equity > 200, "debt ratio excessive")
            \o App(current_ratio < 100, "current ratio short")
            \o App(~cf_gt0, "cash flow poor")
    IN  Capped(s1 + s2 + s3, signals, risks)

analyze_valuation(info) ==
    LET pe_ratio == get_metric(info, "trailingPE", 20)
        pb_ratio == get_metric(info, "priceToBook", 200)
        peg == get_metric(info, "pegRatio", 200)
        ev_ebitda == get_metric(info, "enterpriseToEbitda", 12)
        s1 == IF 8 <= pe_ratio /\ pe_ratio <= 15 THEN 8
              ELSE IF pe_ratio < 8 THEN 6
              ELSE IF pe_ratio <= 20 THEN 5
              ELSE IF pe_ratio <= 30 THEN 2 ELSE 0
        s2 == IF pb_ratio <= 100 THEN 6 ELSE IF pb_ratio <= 150 THEN 5
              ELSE IF pb_ratio <= 250 THEN 3
              ELSE IF pb_ratio <= 400 THEN 1 ELSE 0
        s3 == IF 0 < peg /\ peg <= 100 THEN 6 ELSE IF peg <= 150 THEN 4
              ELSE IF peg <= 200 THEN 2 ELSE 0
        s4 == IF ev_ebitda <= 6 THEN 5 ELSE IF ev_ebitda <= 10 THEN 4
              ELSE IF ev_ebitda <= 15 THEN 2 ELSE 0
        signals ==
            App(8 <= pe_ratio /\ pe_ratio <= 15, "PER very attractive")
            \o App(pe_ratio < 8, "PER undervalued?")
            \o App(pe_ratio > 15 /\ pe_ratio <= 20, "PER fair")
            \o App(pb_ratio <= 100, "PBR undervalued")
            \o App(pb_ratio > 100 /\ pb_ratio <= 150, "PBR attractive")
            \o App(0 < peg /\ peg <= 100, "PEG excellent")
            \o App(~(0 < peg /\ peg <= 100) /\ peg <= 150, "PEG good")
            \o App(ev_ebitda <= 6, "EV/EBITDA attractive")
            \o App(ev_ebitda > 6 /\ ev_ebitda <= 10, "EV/EBITDA fair")
        risks ==
            App(pe_ratio > 20 /\ pe_ratio <= 30, "PER rather high")
            \o App(pe_ratio > 30, "PER overvalued")
            \o App(pb_ratio > 250 /\ pb_ratio <= 400, "PBR high")
            \o App(pb_ratio > 400, "PBR excessive")
            \o App(peg > 200, "PEG high")
            \o App(ev_ebitda > 15, "EV/EBITDA high")
    IN  Capped(s1 + s2 + s3 + s4, signals, risks)

\* self.scores is a dict from the names of the sub-dimensions to their
\* scores, empty on a new object.
NoScores == <<>>

\* A store that adds every new score to the one stored before.
store_scores_accumulating(scores, breakdown) ==
    [k \in DOMAIN breakdown |->
        breakdown[k] + (IF k \in DOMAIN scores THEN scores[k] ELSE 0)]

\* self.scores[key] = score for every key of breakdown.
store_scores(scores, breakdown) == breakdown @@ scores

\* get_peer_comparison, from the sum of self.scores.
get_peer_comparison(scores_sum) ==
    IF scores_sum >= 80 THEN "upper"
    ELSE IF scores_sum >= 60 THEN "upper-middle"
    ELSE IF scores_sum >= 40 THEN "middle"
    ELSE "lower"

(***************************************************************************)
(* QualitativeAnalysisAgent.  get_info returns the value as it is stored:   *)
(* a key present with None yields None, and arithmetic or an ordering       *)
(* comparison on None raises TypeError (a method call on it                 *)
(* AttributeError).  A comparison with a float NaN is False.                *)
(***************************************************************************)
get_info(info, key, default) ==
    IF info[key].tag = "absent" THEN default ELSE info[key]

IsNone(x) == x.tag = "None"
Ge(x, c) == x.tag = "num" /\ x.v >= c
Gt(x, c) == x.tag = "num" /\ x.v > c
Le(x, c) == x.tag = "num" /\ x.v <= c
Lt(x, c) == x.tag = "num" /\ x.v < c

\* Substring tests on the industry names of the model:
\* kw in industry.lower(), and any(ti in industry for ti in tech_industries).
LowerHas(industry, kw) ==
    CASE kw = "semiconductor" ->
            industry \in {"Semiconductors", "Semiconductor Equipment & Materials"}
      [] kw = "electronics" -> industry = "Consumer Electronics"
      [] kw = "bank" -> industry = "Banks - Regional"
      [] kw = "financial" -> industry = "Financial Conglomerates"
      [] OTHER -> FALSE

HasTechIndustry(industry) ==
    industry \in {"Semiconductors", "Software - Application"}

diversified_sectors == {"Conglomerates", "Industrials", "Technology"}
growth_sectors == {"Technology", "Healthcare", "Communication Services"}
stable_sectors == {"Financial Services", "Consumer Cyclical"}
defensive_sectors == {"Consumer Defensive", "Utilities"}

analyze_business_model(info) ==
    LET market_cap == get_info(info, "marketCap", Num(0))
        sector == get_info(info, "sector", Str(""))
        industry == get_info(info, "industry", Str(""))
        gross_margin == get_info(info, "grossMargins", Num(0))
        rd_ratio == get_info(info, "revenuePerShare", Num(0))
        diversified == sector.tag = "str" /\ sector.s \in diversified_sectors
        core == LowerHas(industry.s, "semiconductor")
                \/ LowerHas(industry.s, "electronics")
        fin == LowerHas(industry.s, "bank") \/ LowerHas(industry.s, "financial")
        s1 == IF Ge(market_cap, 100) THEN 8 ELSE IF Ge(market_cap, 50) THEN 7
              ELSE IF Ge(market_cap, 10) THEN 5
              ELSE IF Ge(market_cap, 1) THEN 3 ELSE 1
        s2 == IF diversified THEN 6 ELSE IF core THEN 5
              ELSE IF fin THEN 5 ELSE 3
        s3 == IF Ge(gross_margin, 50) THEN 7 ELSE IF Ge(gross_margin, 30) THEN 5
              ELSE IF Ge(gross_margin, 15) THEN 3 ELSE 1
        s4 == IF Gt(rd_ratio, 0) THEN 2 ELSE 0
        signals ==
            App(Ge(market_cap, 100), "market dominant")
            \o App(~Ge(market_cap, 100) /\ Ge(market_cap, 50), "large company")
            \o App(~Ge(market_cap, 50) /\ Ge(market_cap, 10), "mid-large company")
            \o App(~Ge(market_cap, 10) /\ Ge(market_cap, 1), "mid company")
            \o App(diversified, "diversified business")
            \o App(~diversified /\ core, "core components business")
            \o App(~diversified /\ ~core /\ fin, "financial franchise")
            \o App(~diversified /\ ~core /\ ~fin, "specialised business")
            \o App(Ge(gross_margin, 50), "high value-added business")
            \o App(~Ge(gross_margin, 50) /\ Ge(gross_margin, 30), "good margin")
            \o App(~Ge(gross_margin, 30) /\ Ge(gross_margin, 15), "standard margin")
            \o App(Gt(rd_ratio, 0), "R&D activity")
        risks ==
            App(~Ge(market_cap, 1), "small company")
            \o App(~Ge(gross_margin, 15), "low margin")
    IN  IF IsNone(market_cap) \/ (~diversified /\ IsNone(industry))
           \/ IsNone(gross_margin) \/ IsNone(rd_ratio)
        THEN RAISED
        ELSE Capped(s1 + s2 + s3 + s4, signals, risks)

\* The points of analyze_management before the final min(score, 25).
management_points(dividend_yield, payout_ratio, held_by_insiders, held_by_institutions, employees) ==
      (IF Ge(dividend_yield, 3) THEN 10 ELSE IF Ge(dividend_yield, 2) THEN 8
       ELSE IF Ge(dividend_yield, 1) THEN 5
       ELSE IF Gt(dividend_yield, 0) THEN 3 ELSE 0)
    + (IF Gt(payout_ratio, 0) /\ Lt(payout_ratio, 60) THEN 5
       ELSE IF Ge(payout_ratio, 60) THEN 3 ELSE 0)
    + (IF Ge(held_by_insiders, 10) /\ Le(held_by_insiders, 40) THEN 3 ELSE 0)
    + (IF Ge(held_by_institutions, 30) THEN 3 ELSE 0)
    + (IF Gt(employees, 10000) THEN 4 ELSE IF Gt(employees, 1000) THEN 2 ELSE 0)

analyze_management(info) ==
    LET dividend_yield == get_info(info, "dividendYield", Num(0))
        payout_ratio == get_info(info, "payoutRatio", Num(0))
        held_by_insiders == get_info(info, "heldPercentInsiders", Num(0))
        held_by_institutions == get_info(info, "heldPercentInstitutions", Num(0))
        employees == get_info(info, "fullTimeEmployees", Num(0))
        signals ==
            App(Ge(dividend_yield, 3), "high dividend")
            \o App(~Ge(dividend_yield, 3) /\ Ge(dividend_yield, 2), "dividend excellent")
            \o App(~Ge(dividend_yield, 2) /\ Ge(dividend_yield, 1), "dividend good")
            \o App(~Ge(dividend_yield, 1) /\ Gt(dividend_yield, 0), "pays dividend")
            \o App(Gt(payout_ratio, 0) /\ Lt(payout_ratio, 60), "payout with room")
            \o App(Ge(payout_ratio, 60), "high payout")
            \o App(Ge(held_by_insiders, 10) /\ Le(held_by_insiders, 40),
                   "insider stake fine")
            \o App(Ge(held_by_institutions, 30), "institutions active")
            \o App(Gt(employees, 10000), "large employer")
            \o App(~Gt(employees, 10000) /\ Gt(employees, 1000), "mid employer")
        risks ==
            App(~Gt(dividend_yield, 0), "no dividend")
            \o App(~Ge(held_by_institutions, 30) /\ Lt(held_by_institutions, 10),
                   "institutions uninterested")
    IN  IF IsNone(dividend_yield) \/ IsNone(payout_ratio)
           \/ IsNone(held_by_insiders) \/ IsNone(held_by_institutions)
           \/ IsNone(employees)
        THEN RAISED
        ELSE Capped(management_points(dividend_yield, payout_ratio,
                         held_by_insiders, held_by_institutions, employees),
                 signals, risks)

analyze_industry_outlook(info) ==
    LET sector == get_info(info, "sector", Str(""))
        industry == get_info(info, "industry", Str(""))
        beta == get_info(info, "beta", Num(100))
        in_growth == sector.tag = "str" /\ sector.s \in growth_sectors
        in_stable == sector.tag = "str" /\ sector.s \in stable_sectors
        in_defensive == sector.tag = "str" /\ sector.s \in defensive_sectors
        tech == HasTechIndustry(industry.s)
        elec == LowerHas(industry.s, "electronics")
        bank == LowerHas(industry.s, "bank")
        s1 == IF in_growth THEN 10 ELSE IF in_stable THEN 7
              ELSE IF in_defensive THEN 5 ELSE 4
        s2 == IF tech THEN 8 ELSE IF elec THEN 6 ELSE IF bank THEN 4 ELSE 3
        s3 == IF Ge(beta, 120) THEN 7 ELSE IF Ge(beta, 90) THEN 5
              ELSE IF Ge(beta, 70) THEN 4 ELSE 2
        signals ==
            App(in_growth, "high growth sector")
            \o App(~in_growth /\ in_stable, "mature sector")
            \o App(~in_growth /\ ~in_stable /\ in_defensive, "defensive sector")
            \o App(~in_growth /\ ~in_stable /\ ~in_defensive, "other sector")
            \o App(tech, "high-tech industry")
            \o App(~tech /\ elec, "electronics industry")
            \o App(~tech /\ ~elec /\ bank, "fintech transition")
            \o App(~tech /\ ~elec /\ ~bank, "traditional industry")
            \o App(Ge(beta, 120), "growth stock")
            \o App(~Ge(beta, 120) /\ Ge(beta, 90), "market return")
            \o App(~Ge(beta, 90) /\ Ge(beta, 70), "defensive")
            \o App(~Ge(beta, 70), "low volatility")
    IN  IF IsNone(industry) \/ IsNone(beta)
        THEN RAISED
        ELSE Capped(s1 + s2 + s3, signals, <<>>)

\* The deductions of analyze_risk_factors with the two upper beta bands
\* exchanged (5 from 1.5 on, 8 from 1.2 on).
risk_factors_points_swapped(beta, debt_to_equity, revenue_growth, current_ratio) ==
    25
    - (IF Ge(beta, 150) THEN 5 ELSE IF Ge(beta, 120) THEN 8
       ELSE IF Ge(beta, 100) THEN 2 ELSE 0)
    - (IF Ge(debt_to_equity, 200) THEN 7
       ELSE IF Ge(debt_to_equity, 100) THEN 4 ELSE 0)
    - (IF Lt(revenue_growth, -10) THEN 6
       ELSE IF Lt(revenue_growth, 0) THEN 3 ELSE 0)
    - (IF Lt(current_ratio, 80) THEN 4
       ELSE IF Lt(current_ratio, 100) THEN 2 ELSE 0)

\* The points analyze_risk_factors is left with before the final
\* max(score, 0): 25 less the deductions.
risk_factors_points(beta, debt_to_equity, revenue_growth, current_ratio) ==
    25
    - (IF Ge(beta, 150) THEN 8 ELSE IF Ge(beta, 120) THEN 5
       ELSE IF Ge(beta, 100) THEN 2 ELSE 0)
    - (IF Ge(debt_to_equity, 200) THEN 7
       ELSE IF Ge(debt_to_equity, 100) THEN 4 ELSE 0)
    - (IF Lt(revenue_growth, -10) THEN 6
       ELSE IF Lt(revenue_growth, 0) THEN 3 ELSE 0)
    - (IF Lt(current_ratio, 80) THEN 4
       ELSE IF Lt(current_ratio, 100) THEN 2 ELSE 0)

analyze_risk_factors(info) ==
    LET beta == get_info(info, "beta", Num(100))
        debt_to_equity == get_info(info, "debtToEquity", Num(0))
        revenue_growth == get_info(info, "revenueGrowth", Num(0))
        current_ratio == get_info(info, "currentRatio", Num(100))
        signals ==
            App(~Ge(beta, 120) /\ Ge(beta, 100), "market level volatility")
            \o App(~Ge(beta, 100), "stable")
            \o App(~Ge(debt_to_equity, 100) /\ Gt(debt_to_equity, 0),
                   "debt well managed")
            \o App(~Lt(revenue_growth, 0), "revenue growing")
            \o App(~Lt(current_ratio, 100), "liquidity fine")
        risks ==
            App(Ge(beta, 150), "high volatility")
            \o App(~Ge(beta, 150) /\ Ge(beta, 120), "volatility high")
            \o App(Ge(debt_to_equity, 200), "high debt ratio")
            \o App(~Ge(debt_to_equity, 200) /\ Ge(debt_to_equity, 100), "debt caution")
            \o App(Lt(revenue_growth, -10), "revenue falling")
            \o App(~Lt(revenue_growth, -10) /\ Lt(revenue_growth, 0),
                   "revenue stagnant")
            \o App(Lt(current_ratio, 80), "liquidity risk")
            \o App(~Lt(current_ratio, 80) /\ Lt(current_ratio, 100),
                   "liquidity short")
    IN  IF IsNone(beta) \/ IsNone(debt_to_equity) \/ IsNone(revenue_growth)
           \/ IsNone(current_ratio)
        THEN RAISED
        ELSE Floored(risk_factors_points(beta, debt_to_equity, revenue_growth,
                                         current_ratio),
                 signals, risks)

\* get_moat_rating; "raised" when a None is reached by the short-circuit
\* evaluation of the two conditions.
get_moat_rating(info) ==
    LET gross_margin == get_info(info, "grossMargins", Num(0))
        operating_margin == get_info(info, "operatingMargins", Num(0))
        market_cap == get_info(info, "marketCap", Num(0))
    IN  IF IsNone(gross_margin) THEN "raised"
        ELSE IF Ge(gross_margin, 50) /\ IsNone(operating_margin) THEN "raised"
        ELSE IF Ge(gross_margin, 50) /\ Ge(operating_margin, 20)
                /\ IsNone(market_cap) THEN "raised"
        ELSE IF Ge(gross_margin, 50) /\ Ge(operating_margin, 20)
                /\ Gt(market_cap, 50) THEN "Wide"
        ELSE IF Ge(gross_margin, 30) /\ IsNone(operating_margin) THEN "raised"
        ELSE IF Ge(gross_margin, 30) /\ Ge(operating_margin, 10) THEN "Narrow"
        ELSE "None"

(***************************************************************************)
(* NewsSentimentAgent.  nw summarises self.news as the loops of the agent   *)
(* count it: nw.n is len(self.news), nw.positive and nw.negative are the    *)
(* items of self.news[:20] with more positive (negative) keywords, and      *)
(* nw.earnings ... nw.executive the titles of self.news[:15] holding a      *)
(* keyword of that event type.  pd summarises self.price_data: pd.len its   *)
(* number of rows, pd.recent_volume the mean volume of the last 5 rows,     *)
(* pd.avg_volume of all rows, pd.prev_volume of the 5 rows before the last  *)
(* 5, pd.volatility the standard deviation of the last 5 daily returns (in  *)
(* percent), pd.returns_5d and pd.returns_20d the close against the close   *)
(* 5 and 20 rows back (in percent).  nw.none_title says that an item of     *)
(* self.news[:15] has its key 'title' present with the value None:          *)
(* item.get('title', '') then returns None, and None.lower() raises         *)
(* AttributeError.                                                          *)
(***************************************************************************)
analyze_news_sentiment(nw) ==
    IF nw.n = 0 THEN Out(12, <<"no news data">>, <<>>)
    ELSE IF nw.none_title THEN RAISED
    ELSE
    LET total == Min(nw.n, 20)
        pos == nw.positive
        \* positive_ratio >= 0.5, 0.4, 0.3, 0.2 with both sides times 10 * total
        s == IF 10 * pos >= 5 * total THEN 25
             ELSE IF 10 * pos >= 4 * total THEN 20
             ELSE IF 10 * pos >= 3 * total THEN 15
             ELSE IF 10 * pos >= 2 * total THEN 8
             ELSE 3
        signals ==
            App(s = 25, "positive news dominant")
            \o App(s = 20, "much positive news")
            \o App(s = 15, "news neutral to positive")
            \o App(s = 8, "negative news dominant")
            \o App(nw.n >= 10, "news active")
            \o App(nw.n < 10 /\ nw.n >= 5, "news adequate")
        risks ==
            App(s = 3, "mostly negative news")
            \o App(nw.n < 5, "news scarce")
    IN  Capped(s, signals, risks)

analyze_social_media(pd) ==
    IF pd.len < 5 THEN Out(12, <<"no social data">>, <<>>)
    ELSE
    LET has_avg == pd.avg_volume > 0
        \* volume_ratio = recent_volume / avg_volume if avg_volume > 0 else 1
        ge20 == has_avg /\ pd.recent_volume >= 2 * pd.avg_volume
        ge15 == has_avg /\ 2 * pd.recent_volume >= 3 * pd.avg_volume
        ge10 == ~has_avg \/ pd.recent_volume >= pd.avg_volume
        s1 == IF ge20 THEN 15 ELSE IF ge15 THEN 12 ELSE IF ge10 THEN 8 ELSE 4
        s2 == IF pd.volatility >= 5 THEN 10 ELSE IF pd.volatility >= 3 THEN 7
              ELSE IF pd.volatility >= 1 THEN 5 ELSE 2
        signals ==
            App(ge20, "high attention")
            \o App(~ge20 /\ ge15, "attention rising")
            \o App(~ge20 /\ ~ge15 /\ ge10, "average attention")
            \o App(pd.volatility >= 5, "high volatility")
            \o App(pd.volatility < 5 /\ pd.volatility >= 3, "raised volatility")
            \o App(pd.volatility < 3 /\ pd.volatility >= 1, "normal volatility")
        risks ==
            App(~ge20 /\ ~ge15 /\ ~ge10, "attention falling")
            \o App(pd.volatility < 1, "low volatility")
    IN  Capped(s1 + s2, signals, risks)

\* The deductions of analyze_event_risk without the 3 points of a single
\* offering title.
event_risk_points_rumour_free(nw) ==
    25
    - (IF nw.earnings >= 2 THEN 3 ELSE 0)
    - (IF nw.offering >= 2 THEN 8 ELSE 0)
    - (IF nw.lawsuit >= 2 THEN 10 ELSE IF nw.lawsuit > 0 THEN 5 ELSE 0)
    - (IF nw.executive >= 2 THEN 4 ELSE 0)

\* The points analyze_event_risk is left with before the final
\* max(score, 0): 25 less the deductions.
event_risk_points(nw) ==
    25
    - (IF nw.earnings >= 2 THEN 3 ELSE 0)
    - (IF nw.offering >= 2 THEN 8 ELSE IF nw.offering > 0 THEN 3 ELSE 0)
    - (IF nw.lawsuit >= 2 THEN 10 ELSE IF nw.lawsuit > 0 THEN 5 ELSE 0)
    - (IF nw.executive >= 2 THEN 4 ELSE 0)

analyze_event_risk(nw) ==
    IF nw.none_title THEN RAISED
    ELSE
    LET risks ==
            App(nw.earnings >= 2, "earnings release near")
            \o App(nw.offering >= 2, "offering likely")
            \o App(nw.offering < 2 /\ nw.offering > 0, "offering rumour")
            \o App(nw.lawsuit >= 2, "many legal risks")
            \o App(nw.lawsuit < 2 /\ nw.lawsuit > 0, "legal risk")
            \o App(nw.executive >= 2, "executive change")
        signals ==
            App(nw.earnings < 2 /\ nw.earnings > 0, "earnings news")
            \o App(nw.dividend > 0, "dividend news")
            \o App(nw.meeting > 0, "shareholder meeting")
            \o App(nw.executive < 2 /\ nw.executive > 0, "management news")
            \o App(risks = <<>>, "no special event risk")
    IN  Floored(event_risk_points(nw), signals, risks)

\* Close.iloc[-5] and Close.iloc[-20] raise IndexError on a frame of fewer
\* than 20 rows.
analyze_momentum_signals(pd) ==
    IF pd.len < 10 THEN Out(12, <<"data insufficient">>, <<>>)
    ELSE IF pd.len < 20 THEN RAISED
    ELSE
    LET r5 == pd.returns_5d
        r20 == pd.returns_20d
        has_prev == pd.prev_volume > 0
        \* volume_change = (recent / prev - 1) * 100 if prev > 0 else 0
        vc_ge50 == has_prev /\ 2 * pd.recent_volume >= 3 * pd.prev_volume
        vc_ge20 == has_prev /\ 5 * pd.recent_volume >= 6 * pd.prev_volume
        vc_ge0  == ~has_prev \/ pd.recent_volume >= pd.prev_volume
        s1 == IF r5 >= 10 THEN 10 ELSE IF r5 >= 5 THEN 8 ELSE IF r5 >= 0 THEN 5
              ELSE IF r5 >= -5 THEN 2 ELSE 0
        s2 == IF r20 >= 20 THEN 8 ELSE IF r20 >= 10 THEN 6 ELSE IF r20 >= 0 THEN 4
              ELSE IF r20 >= -10 THEN 2 ELSE 0
        s3 == IF vc_ge50 /\ r5 > 0 THEN 7
              ELSE IF vc_ge20 /\ r5 > 0 THEN 5
              ELSE IF vc_ge0 THEN 3
              ELSE IF r5 < 0 THEN 1 ELSE 0
        signals ==
            App(r5 >= 10, "strong short-term rise")
            \o App(r5 < 10 /\ r5 >= 5, "short-term rise")
            \o App(r5 < 5 /\ r5 >= 0, "short-term flat to up")
            \o App(r20 >= 20, "strong mid-term rise")
            \o App(r20 < 20 /\ r20 >= 10, "mid-term rise")
            \o App(r20 < 10 /\ r20 >= 0, "mid-term flat to up")
            \o App(vc_ge50 /\ r5 > 0, "rise with volume")
            \o App(~vc_ge50 /\ vc_ge20 /\ r5 > 0, "rise with more volume")
        risks ==
            App(r5 < 0 /\ r5 >= -5, "short-term fall")
            \o App(r5 < -5, "strong short-term fall")
            \o App(r20 < 0 /\ r20 >= -10, "mid-term fall")
            \o App(r20 < -10, "strong mid-term fall")
            \o App(s3 = 1, "fall with less volume")
    IN  Capped(s1 + s2 + s3, signals, risks)

get_sentiment_trend(pd) ==
    IF pd.len < 10 THEN "Unknown"
    ELSE IF pd.len < 20 THEN "raised"
    ELSE IF pd.returns_5d > 5 /\ pd.returns_20d > 0 THEN "Improving"
    ELSE IF pd.returns_5d < -5 /\ pd.returns_20d < 0 THEN "Declining"
    ELSE "Stable"

(***************************************************************************)
(* analyze() of the four scorers.  A returned dict is a record with the     *)
(* keys of the dict; the keys analysis_date, current_price,                 *)
(* current_indicators and key_metrics, which only echo the clock and the    *)
(* inputs, are left out.  A call left by an exception yields                *)
(* Exception(type).                                                         *)
(***************************************************************************)
Exception(type) == [exception |-> type]
IsException(r) == "exception" \in DOMAIN r

FetchFailed(symbol, name) ==
    [error |-> "Failed to fetch data", symbol |-> symbol, name |-> name]

\* lst[:k]
Take(lst, k) == SubSeq(lst, 1, Min(Len(lst), k))

\* A ladder with a fourth rung above BUY.
technical_recommendation_strong(total_score) ==
    IF total_score >= 80 THEN "STRONG BUY"
    ELSE IF total_score >= 70 THEN "BUY"
    ELSE IF total_score >= 50 THEN "HOLD"
    ELSE "SELL"

technical_recommendation(total_score) ==
    IF total_score >= 70 THEN "BUY"
    ELSE IF total_score >= 50 THEN "HOLD"
    ELSE "SELL"

quant_recommendation(total_score) ==
    IF total_score >= 70 THEN "BUY"
    ELSE IF total_score >= 50 THEN "HOLD"
    ELSE "SELL"

qualitative_recommendation(total_score) ==
    IF total_score >= 70 THEN "BUY"
    ELSE IF total_score >= 50 THEN "HOLD"
    ELSE "SELL"

\* The ladder with a strict comparison at 70.
news_recommendation_strict(total_score) ==
    IF total_score > 70 THEN "BUY"
    ELSE IF total_score >= 50 THEN "HOLD"
    ELSE "SELL"

news_recommendation(total_score) ==
    IF total_score >= 70 THEN "BUY"
    ELSE IF total_score >= 50 THEN "HOLD"
    ELSE "SELL"

\* fetched is what fetch_data returned; d the frame it left in self.data.
TechnicalAnalysisAgent_analyze(symbol, name, fetched, d) ==
    IF ~fetched THEN FetchFailed(symbol, name)
    ELSE
    LET price == analyze_price_trend(d)
        momentum == analyze_momentum(d)
        bollinger == analyze_bollinger(d)
        volume == analyze_volume(d)
        total_score == price.score + momentum.score + bollinger.score
                       + volume.score
        all_signals == price.signals \o momentum.signals \o bollinger.signals
                       \o volume.signals
        all_risks == price.risks \o momentum.risks \o bollinger.risks
                     \o volume.risks
    IN  [agent_id |-> "TECH_001",
         agent_name |-> "Technical Analyst",
         symbol |-> symbol,
         name |-> name,
         total_score |-> total_score,
         breakdown |-> [price_trend |-> price.score,
                        momentum |-> momentum.score,
                        bollinger |-> bollinger.score,
                        volume |-> volume.score],
         key_signals |-> Take(all_signals, 5),
         risk_flags |-> Take(all_risks, 3),
         recommendation |-> technical_recommendation(total_score)]

\* scores is self.scores as the call finds it.
QuantAnalysisAgent_analyze(scores, symbol, name, fetched, info) ==
    IF ~fetched THEN FetchFailed(symbol, name)
    ELSE
    LET profit == analyze_profitability(info)
        growth == analyze_growth(info)
        stability == analyze_stability(info)
        valuation == analyze_valuation(info)
        total_score == profit.score + growth.score + stability.score
                       + valuation.score
        all_signals == profit.signals \o growth.signals \o stability.signals
                       \o valuation.signals
        all_risks == profit.risks \o growth.risks \o stability.risks
                     \o valuation.risks
        \* the four assignments to self.scores come before get_peer_comparison,
        \* which sums self.scores.values()
        self_scores == store_scores(scores,
                           [profitability |-> profit.score,
                            growth |-> growth.score,
                            stability |-> stability.score,
                            valuation |-> valuation.score])
        peer_comparison == get_peer_comparison(
                               self_scores.profitability + self_scores.growth
                               + self_scores.stability + self_scores.valuation)
    IN  [agent_id |-> "QUANT_001",
         agent_name |-> "Quant Analyst",
         symbol |-> symbol,
         name |-> name,
         sector |-> IF info["sector"].tag = "absent" THEN Str("Unknown")
                    ELSE info["sector"],
         industry |-> IF info["industry"].tag = "absent" THEN Str("Unknown")
                      ELSE info["industry"],
         total_score |-> total_score,
         breakdown |-> [profitability |-> profit.score,
                        growth |-> growth.score,
                        stability |-> stability.score,
                        valuation |-> valuation.score],
         peer_comparison |-> peer_comparison,
         key_signals |-> Take(all_signals, 5),
         risk_flags |-> Take(all_risks, 3),
         recommendation |-> quant_recommendation(total_score)]

QualitativeAnalysisAgent_analyze(symbol, name, fetched, info) ==
    IF ~fetched THEN FetchFailed(symbol, name)
    ELSE
    LET business == analyze_business_model(info)
        management == analyze_management(info)
        industry == analyze_industry_outlook(info)
        risk == analyze_risk_factors(info)
        total_score == business.score + management.score + industry.score
                       + risk.score
        all_signals == business.signals \o management.signals
                       \o industry.signals \o risk.signals
        all_risks == business.risks \o management.risks \o industry.risks
                     \o risk.risks
        moat_rating == get_moat_rating(info)
    IN  IF business.raised \/ management.raised \/ industry.raised
           \/ risk.raised \/ moat_rating = "raised"
        THEN Exception("TypeError")
        ELSE
        [agent_id |-> "QUAL_001",
         agent_name |-> "Qualitative Analyst",
         symbol |-> symbol,
         name |-> name,
         sector |-> get_info(info, "sector", Str("Unknown")),
         industry |-> get_info(info, "industry", Str("Unknown")),
         total_score |-> total_score,
         breakdown |-> [business_model |-> business.score,
                        management |-> management.score,
                        industry_outlook |-> industry.score,
                        risk_factors |-> risk.score],
         moat_rating |-> moat_rating,
         key_signals |-> Take(all_signals, 5),
         key_risks |-> Take(all_risks, 3),
         recommendation |-> qualitative_recommendation(total_score)]

\* nw and pd are what fetch_data left in self.news and self.price_data.
NewsSentimentAgent_analyze(symbol, name, fetched, nw, pd) ==
    IF ~fetched THEN FetchFailed(symbol, name)
    ELSE
    LET news == analyze_news_sentiment(nw)
        social == analyze_social_media(pd)
        event == analyze_event_risk(nw)
        momentum == analyze_momentum_signals(pd)
        total_score == news.score + social.score + event.score + momentum.score
        all_signals == news.signals \o social.signals \o event.signals
                       \o momentum.signals
        all_risks == news.risks \o social.risks \o event.risks
                     \o momentum.risks
        sentiment_trend == get_sentiment_trend(pd)
    IN  IF news.raised \/ event.raised THEN Exception("AttributeError")
        ELSE IF momentum.raised \/ sentiment_trend = "raised"
        THEN Exception("IndexError")
        ELSE
        [agent_id |-> "NEWS_001",
         agent_name |-> "News Sentiment Analyst",
         symbol |-> symbol,
         name |-> name,
         total_score |-> total_score,
         breakdown |-> [news_sentiment |-> news.score,
                        social_media |-> social.score,
                        event_risk |-> event.score,
                        momentum_signals |-> momentum.score],
         sentiment_trend |-> sentiment_trend,
         news_count |-> nw.n,
         key_signals |-> Take(all_signals, 5),
         key_risks |-> Take(all_risks, 3),
         recommendation |-> news_recommendation(total_score)]

(***************************************************************************)
(* Level 1 aggregation.  The *_result arguments are what analyze() of the   *)
(* four scorers did, in the order the code calls them; an exception leaves  *)
(* the function at the call that raised, so the later scorers are not run.  *)
(* Averages are kept in tenths, as round(x, 1) leaves them.                 *)
(***************************************************************************)
\* dict.get(key, default)
Get(r, key, default) == IF key \in DOMAIN r THEN r[key] ELSE default

\* round(num / den, 1) in tenths; Python rounds an exact half to the even
\* neighbour.
round1(num, den) ==
    LET q == (10 * num) \div den
        r == (10 * num) % den
    IN  IF 2 * r < den THEN q
        ELSE IF 2 * r > den THEN q + 1
        ELSE IF q % 2 = 0 THEN q ELSE q + 1

RECURSIVE SumSeq(_)
SumSeq(seq) == IF seq = <<>> THEN 0 ELSE Head(seq) + SumSeq(Tail(seq))

\* lst.count(x)
Count(seq, x) == Cardinality({i \in DOMAIN seq : seq[i] = x})

\* The scorers that were run: all four, or those up to the first exception.
agents_run(tech_result, quant_result, qual_result, news_result) ==
    IF IsException(tech_result) THEN <<"TECH_001">>
    ELSE IF IsException(quant_result) THEN <<"TECH_001", "QUANT_001">>
    ELSE IF IsException(qual_result) THEN <<"TECH_001", "QUANT_001", "QUAL_001">>
    ELSE <<"TECH_001", "QUANT_001", "QUAL_001", "NEWS_001">>

\* A consensus that looks at the SELL votes before the second BUY vote.
consensus_of_sell_first(buy_count, sell_count) ==
    IF buy_count >= 3 THEN "STRONG BUY"
    ELSE IF sell_count >= 2 THEN "SELL"
    ELSE IF buy_count >= 2 THEN "BUY"
    ELSE "HOLD"

\* The consensus of run_all_level1_agents from the vote counts.
consensus_of(buy_count, sell_count) ==
    IF buy_count >= 3 THEN "STRONG BUY"
    ELSE IF buy_count >= 2 THEN "BUY"
    ELSE IF sell_count >= 2 THEN "SELL"
    ELSE "HOLD"

\* A summary drawn up when three entries are in: the entry that comes last
\* is left out of the average and of the votes.
level1_summary_early(scores, recommendations) ==
    LET first == SubSeq(scores, 1, 3)
        buy_count == Count(SubSeq(recommendations, 1, 3), "BUY")
        hold_count == Count(SubSeq(recommendations, 1, 3), "HOLD")
        sell_count == Count(SubSeq(recommendations, 1, 3), "SELL")
    IN  [average_score |-> round1(SumSeq(first), Len(first)),
         consensus |-> consensus_of(buy_count, sell_count),
         buy_votes |-> buy_count,
         hold_votes |-> hold_count,
         sell_votes |-> sell_count,
         total_agents |-> 4]

\* results['summary'] of run_all_level1_agents, from the scores and the
\* recommendations of results['agents'].values().
level1_summary(scores, recommendations) ==
    LET buy_count == Count(recommendations, "BUY")
        hold_count == Count(recommendations, "HOLD")
        sell_count == Count(recommendations, "SELL")
    IN  [average_score |-> round1(SumSeq(scores), Len(scores)),
         consensus |-> consensus_of(buy_count, sell_count),
         buy_votes |-> buy_count,
         hold_votes |-> hold_count,
         sell_votes |-> sell_count,
         total_agents |-> 4]

run_all_level1_agents(symbol, name, tech_result, quant_result, qual_result, news_result) ==
    IF IsException(tech_result) THEN tech_result
    ELSE IF IsException(quant_result) THEN quant_result
    ELSE IF IsException(qual_result) THEN qual_result
    ELSE IF IsException(news_result) THEN news_result
    ELSE
    LET agents ==
            [TECH_001 |->
                [name |-> "Technical Analyst",
                 score |-> Get(tech_result, "total_score", 0),
                 recommendation |-> Get(tech_result, "recommendation", "HOLD"),
                 key_signals |-> Take(Get(tech_result, "key_signals", <<>>), 3)],
             QUANT_001 |->
                [name |-> "Quant Analyst",
                 score |-> Get(quant_result, "total_score", 0),
                 recommendation |-> Get(quant_result, "recommendation", "HOLD")],
             QUAL_001 |->
                [name |-> "Qualitative Analyst",
                 score |-> Get(qual_result, "total_score", 0),
                 recommendation |-> Get(qual_result, "recommendation", "HOLD"),
                 moat_rating |-> Get(qual_result, "moat_rating", "None")],
             NEWS_001 |->
                [name |-> "News Sentiment Analyst",
                 score |-> Get(news_result, "total_score", 0),
                 recommendation |-> Get(news_result, "recommendation", "HOLD"),
                 sentiment_trend |-> Get(news_result, "sentiment_trend", "Unknown")]]
        order == <<"TECH_001", "QUANT_001", "QUAL_001", "NEWS_001">>
        scores == [i \in 1..4 |-> agents[order[i]].score]
        recommendations == [i \in 1..4 |-> agents[order[i]].recommendation]
    IN  [symbol |-> symbol,
         name |-> name,
         agents |-> agents,
         summary |-> level1_summary(scores, recommendations)]

\* str(e) of a caught exception.
str(e) == e.exception

\* result['agents'] of the batch runners after the given scorers returned.
batch_agents(returned) ==
    LET key == [TECH_001 |-> "TECH", QUANT_001 |-> "QUANT", QUAL_001 |-> "QUAL",
                NEWS_001 |-> "NEWS"]
    IN  [k \in {key[a] : a \in DOMAIN returned} |->
            LET a == CHOOSE a \in DOMAIN returned : key[a] = k
            IN  [score |-> Get(returned[a], "total_score", 0),
                 rec |-> Get(returned[a], "recommendation", "HOLD")]]

\* The returns of the scorers that were called, the raising call among them.
returned_of_called(tech_result, quant_result, qual_result, news_result) ==
    LET all == [TECH_001 |-> tech_result, QUANT_001 |-> quant_result,
                QUAL_001 |-> qual_result, NEWS_001 |-> news_result]
        run == agents_run(tech_result, quant_result, qual_result, news_result)
    IN  [a \in {run[i] : i \in DOMAIN run} |-> all[a]]

\* The analyze() returns of the scorers that ran without raising.
returned_of(tech_result, quant_result, qual_result, news_result) ==
    LET all == [TECH_001 |-> tech_result, QUANT_001 |-> quant_result,
                QUAL_001 |-> qual_result, NEWS_001 |-> news_result]
        run == agents_run(tech_result, quant_result, qual_result, news_result)
    IN  [a \in {run[i] : i \in DOMAIN run} \ {a \in DOMAIN all : IsException(all[a])}
            |-> all[a]]

\* The exception that ended the try block, if any.
raised_of(tech_result, quant_result, qual_result, news_result) ==
    IF IsException(tech_result) THEN tech_result
    ELSE IF IsException(quant_result) THEN quant_result
    ELSE IF IsException(qual_result) THEN qual_result
    ELSE IF IsException(news_result) THEN news_result
    ELSE [none |-> TRUE]

\* An analyze_stock without the except clause: the exception leaves it.
batch_analyze_stock_unguarded(stock, tech_result, quant_result, qual_result, news_result) ==
    LET returned == returned_of(tech_result, quant_result, qual_result, news_result)
        e == raised_of(tech_result, quant_result, qual_result, news_result)
        agents == batch_agents(returned)
        order == <<"TECH", "QUANT", "QUAL", "NEWS">>
    IN  IF IsException(e)
        THEN e
        ELSE LET scores == [i \in 1..4 |-> agents[order[i]].score]
             IN  [symbol |-> stock.symbol, name |-> stock.name, agents |-> agents,
                  avg_score |-> round1(SumSeq(scores), Len(scores)),
                  status |-> "success"]

\* analyze_stock of daily_level1_batch.py
batch_analyze_stock(stock, tech_result, quant_result, qual_result, news_result) ==
    LET returned == returned_of(tech_result, quant_result, qual_result, news_result)
        e == raised_of(tech_result, quant_result, qual_result, news_result)
        agents == batch_agents(returned)
        order == <<"TECH", "QUANT", "QUAL", "NEWS">>
    IN  IF IsException(e)
        THEN [symbol |-> stock.symbol, name |-> stock.name, agents |-> agents,
              status |-> "error", error |-> str(e)]
        ELSE LET scores == [i \in 1..4 |-> agents[order[i]].score]
             IN  [symbol |-> stock.symbol, name |-> stock.name, agents |-> agents,
                  avg_score |-> round1(SumSeq(scores), Len(scores)),
                  status |-> "success"]

\* The consensus of the FDR and full-market runners.
batch_consensus(buy_count) ==
    IF buy_count >= 3 THEN "STRONG BUY"
    ELSE IF buy_count >= 2 THEN "BUY"
    ELSE "HOLD"

\* Level1BatchRunnerFDR.analyze_stock
fdr_analyze_stock(stock, tech_result, quant_result, qual_result, news_result) ==
    LET returned == returned_of(tech_result, quant_result, qual_result, news_result)
        e == raised_of(tech_result, quant_result, qual_result, news_result)
        agents == batch_agents(returned)
        order == <<"TECH", "QUANT", "QUAL", "NEWS">>
        base == [symbol |-> stock.symbol, name |-> stock.name,
                 market |-> Get(stock, "market", "UNKNOWN"),
                 sector |-> Get(stock, "sector", "Unknown"),
                 agents |-> agents]
    IN  IF IsException(e)
        THEN base @@ [status |-> "error", error |-> str(e)]
        ELSE LET scores == [i \in 1..4 |-> agents[order[i]].score]
                 recs == [i \in 1..4 |-> agents[order[i]].rec]
             IN  base @@ [avg_score |-> round1(SumSeq(scores), Len(scores)),
                          consensus |-> batch_consensus(Count(recs, "BUY")),
                          status |-> "success"]

\* analyze_stock of daily_level1_fullmarket.py
fullmarket_analyze_stock(stock, tech_result, quant_result, qual_result, news_result) ==
    LET returned == returned_of(tech_result, quant_result, qual_result, news_result)
        e == raised_of(tech_result, quant_result, qual_result, news_result)
        agents == batch_agents(returned)
        order == <<"TECH", "QUANT", "QUAL", "NEWS">>
        base == [symbol |-> stock.symbol, name |-> stock.name,
                 market |-> Get(stock, "market", "KOSPI"),
                 sector |-> Get(stock, "sector", "Unknown"),
                 agents |-> agents]
    IN  IF IsException(e)
        THEN base @@ [status |-> "error", error |-> str(e)]
        ELSE LET scores == [i \in 1..4 |-> agents[order[i]].score]
                 recs == [i \in 1..4 |-> agents[order[i]].rec]
             IN  base @@ [avg_score |-> round1(SumSeq(scores), Len(scores)),
                          consensus |-> batch_consensus(Count(recs, "BUY")),
                          status |-> "success"]

(***************************************************************************)
(* The data the scorers are run on.  yfinance can return any frame and any  *)
(* info dictionary; the sets below hold, for every field a scoring function *)
(* reads, values on both sides of its breakpoints, and for the dictionary   *)
(* values also the absent key, None and NaN.                                *)
(***************************************************************************)
Stocks == {[symbol |-> "005930.KS", name |-> "Samsung Electronics"],
           [symbol |-> "000660.KS", name |-> "SK Hynix"]}

\* len(self.data.dropna()): below 20, below 26, below 60, and 60.
RowsSamples == {15, 22, 40, 60}

PriceFields ==
    [MA5 : {98, 102}, MA20 : {100}, MA60 : {97, 103}, prevMA5 : {98},
     prevMA20 : {99, 101}, Close : {96, 104}, ma20_slope : {-10, 30}]

MomentumFields ==
    [RSI : {25, 60}, MACD : {-2, 2}, MACD_Signal : {0},
     prevMACD : {-3, 3}, prevMACD_Signal : {0}]

\* %B is above one half exactly when the close is above the middle band
\* (MA20 = 100): the frames pair a close of 96 with the lower half and a
\* close of 104 with the upper half.
BollingerFields(close) ==
    [BB_Position : IF close > 100 THEN {55, 90} ELSE {10, 30},
     BB_Width : {5, 10, 20}, prevBB_Width : {10}, avg_width : {10}]

VolumeFields ==
    [Volume_Ratio : {50, 250}, vol_trend : {80, 140},
     obv_up : BOOLEAN, price_up : BOOLEAN]

Frame(r, p, m, b, v) ==
    [rows |-> r,
     MA5 |-> p.MA5, MA20 |-> p.MA20, MA60 |-> p.MA60, prevMA5 |-> p.prevMA5,
     prevMA20 |-> p.prevMA20, Close |-> p.Close, ma20_slope |-> p.ma20_slope,
     RSI |-> m.RSI, MACD |-> m.MACD, MACD_Signal |-> m.MACD_Signal,
     prevMACD |-> m.prevMACD, prevMACD_Signal |-> m.prevMACD_Signal,
     BB_Position |-> b.BB_Position, BB_Width |-> b.BB_Width,
     prevBB_Width |-> b.prevBB_Width, avg_width |-> b.avg_width,
     Volume_Ratio |-> v.Volume_Ratio, vol_trend |-> v.vol_trend,
     obv_up |-> v.obv_up, price_up |-> v.price_up]

QuantInfos ==
    [returnOnEquity : {Absent, Num(25)},
     returnOnAssets : {Num(0), Num(12)},
     operatingMargins : {NoneV, Num(25)},
     profitMargins : {NaN, Num(20)},
     revenueGrowth : {Num(-5), Num(35)},
     earningsGrowth : {Absent, Num(40)},
     earningsQuarterlyGrowth : {NoneV, Num(30)},
     debtToEquity : {Absent, Num(30), Num(250)},
     currentRatio : {Num(50), Num(250)},
     operatingCashflow : {Num(0), Num(20)},
     totalRevenue : {Num(100)},
     trailingPE : {Num(10), Num(40)},
     priceToBook : {Num(80), Num(500)},
     pegRatio : {Absent, Num(50), Num(300)},
     enterpriseToEbitda : {Num(5)},
     sector : {Str("Technology")},
     industry : {AbsentS}]

QualInfos ==
    [marketCap : {NoneV, Num(0), Num(200)},
     sector : {AbsentS, Str("Technology"), Str("Utilities")},
     industry : {NoneS, Str("Semiconductors"), Str("Banks - Regional")},
     grossMargins : {Absent, Num(55)},
     operatingMargins : {Num(25)},
     revenuePerShare : {Num(10)},
     dividendYield : {Num(0), Num(4)},
     payoutRatio : {Absent, Num(40)},
     heldPercentInsiders : {Num(20)},
     heldPercentInstitutions : {Num(5), Num(40)},
     fullTimeEmployees : {NoneV, Num(20000)},
     beta : {Absent, NaN, Num(160)},
     debtToEquity : {Num(0), Num(250)},
     revenueGrowth : {Num(-20), Num(10)},
     currentRatio : {Num(50), Num(150)}]

\* The counted items are among the first 20 (15) entries of self.news.
NewsLists ==
    {nw \in [n : {0, 3, 12}, positive : {0, 1, 6}, negative : {0},
             earnings : {0, 2}, dividend : {0, 1}, meeting : {0},
             offering : {0, 1, 2}, lawsuit : {0, 2}, executive : {0, 2},
             none_title : BOOLEAN] :
        /\ nw.none_title => nw.n > 0
        /\ nw.positive + nw.negative <= Min(nw.n, 20)
        /\ \A k \in {"earnings", "dividend", "meeting", "offering", "lawsuit",
                     "executive"} : nw[k] <= Min(nw.n, 15)}

PriceData ==
    [len : {0, 7, 15, 25}, recent_volume : {50, 200},
     avg_volume : {0, 100}, prev_volume : {100}, volatility : {0, 6},
     returns_5d : {-8, 3, 12}, returns_20d : {-15, 25}]

(***************************************************************************)
(* The data of the Level 1 runs: for each scorer a fetch failure and a few  *)
(* frames or dictionaries out of the sets above, chosen so that every       *)
(* scorer can vote BUY, HOLD and SELL, and the two scorers that can raise   *)
(* do so.                                                                   *)
(***************************************************************************)
\* 12 + 25 + 18 + 25 = 80 with 40 rows; 67 with 22 rows; 48 with 15 rows.
TechBase ==
    Frame(40,
          [MA5 |-> 98, MA20 |-> 100, MA60 |-> 97, prevMA5 |-> 98,
           prevMA20 |-> 99, Close |-> 96, ma20_slope |-> -10],
          [RSI |-> 60, MACD |-> 2, MACD_Signal |-> 0, prevMACD |-> -3,
           prevMACD_Signal |-> 0],
          [BB_Position |-> 30, BB_Width |-> 10, prevBB_Width |-> 10,
           avg_width |-> 10],
          [Volume_Ratio |-> 250, vol_trend |-> 140, obv_up |-> TRUE,
           price_up |-> TRUE])

TechCases ==
    {[fetched |-> FALSE, d |-> TechBase]}
    \cup {[fetched |-> TRUE, d |-> [TechBase EXCEPT !.rows = r]] : r \in {15, 22, 40}}

\* 0 + 15 + 25 + 25 = 65
QuantBase ==
    [returnOnEquity |-> Absent, returnOnAssets |-> Num(0),
     operatingMargins |-> NoneV, profitMargins |-> NaN,
     revenueGrowth |-> Num(-5), earningsGrowth |-> Num(40),
     earningsQuarterlyGrowth |-> Num(30), debtToEquity |-> Num(30),
     currentRatio |-> Num(250), operatingCashflow |-> Num(20),
     totalRevenue |-> Num(100), trailingPE |-> Num(10),
     priceToBook |-> Num(80), pegRatio |-> Num(50),
     enterpriseToEbitda |-> Num(5), sector |-> Str("Technology"),
     industry |-> AbsentS]

\* 65; 75 with growing revenue; 43 without earnings growth and cash flow.
QuantCases ==
    {[fetched |-> FALSE, info |-> QuantBase],
     [fetched |-> TRUE, info |-> QuantBase],
     [fetched |-> TRUE, info |-> [QuantBase EXCEPT !.revenueGrowth = Num(35)]],
     [fetched |-> TRUE,
      info |-> [QuantBase EXCEPT !.earningsGrowth = Absent,
                                 !.earningsQuarterlyGrowth = NoneV,
                                 !.operatingCashflow = Num(0)]]}

\* 11 + 10 + 17 + 17 = 55
QualBase ==
    [marketCap |-> Num(0), sector |-> AbsentS,
     industry |-> Str("Semiconductors"), grossMargins |-> Num(55),
     operatingMargins |-> Num(25), revenuePerShare |-> Num(10),
     dividendYield |-> Num(0), payoutRatio |-> Absent,
     heldPercentInsiders |-> Num(20), heldPercentInstitutions |-> Num(40),
     fullTimeEmployees |-> Num(20000), beta |-> Absent,
     debtToEquity |-> Num(0), revenueGrowth |-> Num(-20),
     currentRatio |-> Num(50)]

\* 55; 72 with a dividend and a large market value; 44 with a high beta and debt;
\* an exception with marketCap None.
QualCases ==
    {[fetched |-> FALSE, info |-> QualBase],
     [fetched |-> TRUE, info |-> QualBase],
     [fetched |-> TRUE,
      info |-> [QualBase EXCEPT !.dividendYield = Num(4), !.marketCap = Num(200)]],
     [fetched |-> TRUE,
      info |-> [QualBase EXCEPT !.beta = Num(160), !.debtToEquity = Num(250)]],
     [fetched |-> TRUE, info |-> [QualBase EXCEPT !.marketCap = NoneV]]}

NewsBaseList ==
    [n |-> 3, positive |-> 1, negative |-> 0, earnings |-> 0, dividend |-> 0,
     meeting |-> 0, offering |-> 0, lawsuit |-> 0, executive |-> 0,
     none_title |-> FALSE]

\* with NewsBaseList: 15 + 25 + 25 + 25 = 90
NewsBasePrices ==
    [len |-> 25, recent_volume |-> 200, avg_volume |-> 100,
     prev_volume |-> 100, volatility |-> 6, returns_5d |-> 12,
     returns_20d |-> 25]

\* 90; 68 after a fall; 47 after a fall on low volume and volatility; an
\* exception with 15 rows of prices.
NewsCases ==
    {[fetched |-> FALSE, nw |-> NewsBaseList, pd |-> NewsBasePrices],
     [fetched |-> TRUE, nw |-> NewsBaseList, pd |-> NewsBasePrices],
     [fetched |-> TRUE, nw |-> NewsBaseList,
      pd |-> [NewsBasePrices EXCEPT !.returns_5d = -8, !.returns_20d = -15]],
     [fetched |-> TRUE, nw |-> NewsBaseList,
      pd |-> [NewsBasePrices EXCEPT !.returns_5d = -8, !.returns_20d = -15,
                                    !.recent_volume = 50, !.volatility = 0]],
     [fetched |-> TRUE, nw |-> NewsBaseList,
      pd |-> [NewsBasePrices EXCEPT !.len = 15]]}

\* The batch runners get fewer cases per scorer: the fetch failure, one or
\* two of the analyses above, and the raising case.
TechBatchCases == {c \in TechCases : ~c.fetched \/ c.d.rows \in {15, 40}}
QuantBatchCases ==
    {c \in QuantCases : ~c.fetched \/ c.info.revenueGrowth = Num(35)}
QualBatchCases ==
    {c \in QualCases : ~c.fetched \/ c.info.beta = Num(160)
                       \/ c.info.marketCap = NoneV}
NewsBatchCases ==
    {c \in NewsCases : ~c.fetched \/ c.pd = NewsBasePrices \/ c.pd.len = 15}

\* The longest stock list of a batch run.
MaxBatch == 2

\* Stock lists: every symbol at most once, as in the lists of the runners.
BatchLists ==
    LET S == {st @@ [market |-> "KOSPI"] : st \in Stocks}
    IN  {q \in UNION {[1..n -> S] : n \in 0..MaxBatch} :
            \A i, j \in DOMAIN q : i # j => q[i].symbol # q[j].symbol}

VARIABLES
    scorer,         \* the scorer object that was constructed last
    result,         \* what its analyze() returned
    l1_symbol,      \* the symbol Level 1 was run on last
    l1_invoked,     \* the scorers whose analyze() was called for it, in order
    l1_outcome,     \* what each of these calls did
    l1_result,      \* what run_all_level1_agents returned
    batch_prog,     \* the batch runner that is running
    batch_stocks,   \* its stock list
    batch_results,  \* its list `results`
    batch_final,    \* the dict `final` it wrote
    batch_pc,       \* "idle", "loop", "done" or "crashed"
    orc_prog,       \* the orchestrator program that is running
    config_file,    \* agent_group_config.json on disk
    orc_config,     \* the agents of the configuration that was loaded
    orc_stocks,     \* the stocks of the batch file
    orc_idx,        \* the position of the stock the loop of main is at
    orc_pc,         \* where main is: "idle", "loop", "level1", "level2",
                    \* "level3", "save", "exit" or "crashed"
    level_1,        \* the Level 1 results of the stock
    level_2,        \* its Level 2 results
    level_3,        \* its Level 3 result
    orc_calls,      \* the calls of the level functions so far
    orc_files,      \* the result files written so far
    orc_error,      \* the exception that ended the program
    agent,          \* a scorer object that is run more than once
    served,         \* what yfinance serves for its symbol
    returned,       \* what the calls of analyze() on this data returned
    called,         \* the scoring function that was called last, and the
                    \* data it read
    out             \* what that call returned

agentVars == <<agent, served, returned>>
scoringVars == <<called, out>>
scorerVars == <<scorer, result, agentVars, scoringVars>>
level1Vars == <<l1_symbol, l1_invoked, l1_outcome, l1_result, batch_prog,
                batch_stocks, batch_results, batch_final, batch_pc>>
orcVars == <<orc_prog, config_file, orc_config, orc_stocks, orc_idx, orc_pc,
             level_1, level_2, level_3, orc_calls, orc_files, orc_error>>
vars == <<scorerVars, level1Vars, orcVars>>

NoScorer == [cls |-> "none", symbol |-> "", name |-> ""]
NoResult == [none |-> TRUE]

ScorerClasses == {"TechnicalAnalysisAgent", "QuantAnalysisAgent",
                  "QualitativeAnalysisAgent", "NewsSentimentAgent"}

\* Nothing was fetched yet.
NoData == [fetch |-> "none"]

\* No scoring function was called yet.
NoCall == [fn |-> "none"]

ScorerInit ==
    /\ scorer = NoScorer
    /\ result = NoResult
    /\ agent = [cls |-> "none", symbol |-> "", name |-> "", data |-> NoData,
                scores |-> NoScores, runs |-> 0]
    /\ served = NoData
    /\ returned = <<>>
    /\ called = NoCall
    /\ out = NoResult

Level1Init ==
    /\ l1_symbol = ""
    /\ l1_invoked = <<>>
    /\ l1_outcome = <<>>
    /\ l1_result = NoResult
    /\ batch_prog = "none"
    /\ batch_stocks = <<>>
    /\ batch_results = <<>>
    /\ batch_final = NoResult
    /\ batch_pc = "idle"

(***************************************************************************)
(* The scorers run on their own (the main() of each agent module).          *)
(***************************************************************************)
\* __init__(symbol, name) of a scorer class.
NewScorer ==
    /\ \E cls \in ScorerClasses, st \in Stocks :
        /\ scorer' = [cls |-> cls, symbol |-> st.symbol, name |-> st.name]
        /\ result' = NoResult
    /\ called' = NoCall
    /\ out' = NoResult
    /\ UNCHANGED <<agentVars, level1Vars, orcVars>>

TechAnalyze ==
    /\ scorer.cls = "TechnicalAnalysisAgent"
    /\ result = NoResult
    /\ \E fetched \in BOOLEAN, r \in RowsSamples, p \in PriceFields,
          m \in MomentumFields, v \in VolumeFields :
          \E b \in BollingerFields(p.Close) :
             result' = TechnicalAnalysisAgent_analyze(scorer.symbol, scorer.name,
                           fetched, Frame(r, p, m, b, v))
    /\ UNCHANGED <<scorer, agentVars, scoringVars, level1Vars, orcVars>>

QuantAnalyze ==
    /\ scorer.cls = "QuantAnalysisAgent"
    /\ result = NoResult
    /\ \E fetched \in BOOLEAN, info \in QuantInfos :
          result' = QuantAnalysisAgent_analyze(NoScores, scorer.symbol,
                                               scorer.name, fetched, info)
    /\ UNCHANGED <<scorer, agentVars, scoringVars, level1Vars, orcVars>>

QualAnalyze ==
    /\ scorer.cls = "QualitativeAnalysisAgent"
    /\ result = NoResult
    /\ \E fetched \in BOOLEAN, info \in QualInfos :
          result' = QualitativeAnalysisAgent_analyze(scorer.symbol, scorer.name,
                                                     fetched, info)
    /\ UNCHANGED <<scorer, agentVars, scoringVars, level1Vars, orcVars>>

NewsAnalyze ==
    /\ scorer.cls = "NewsSentimentAgent"
    /\ result = NoResult
    /\ \E fetched \in BOOLEAN, nw \in NewsLists, pd \in PriceData :
          result' = NewsSentimentAgent_analyze(scorer.symbol, scorer.name,
                                               fetched, nw, pd)
    /\ UNCHANGED <<scorer, agentVars, scoringVars, level1Vars, orcVars>>

OrcInit ==
    /\ orc_prog = "none"
    /\ config_file = [exists |-> FALSE, agents |-> {}]
    /\ orc_config = {}
    /\ orc_stocks = <<>>
    /\ orc_idx = 0
    /\ orc_pc = "idle"
    /\ level_1 = NoResult
    /\ level_2 = NoResult
    /\ level_3 = NoResult
    /\ orc_calls = <<>>
    /\ orc_files = <<>>
    /\ orc_error = ""

Init ==
    /\ ScorerInit
    /\ Level1Init
    /\ OrcInit

Next ==
    \/ NewScorer
    \/ TechAnalyze
    \/ QuantAnalyze
    \/ QualAnalyze
    \/ NewsAnalyze

Spec == Init /\ [][Next]_vars

(***************************************************************************)
(* Level 1 of one symbol (test_level1_all.py) and the three batch runners   *)
(* (daily_level1_batch.py, daily_level1_fdr.py, daily_level1_fullmarket.py).*)
(***************************************************************************)
\* What the four analyze() calls do on the chosen data.
Outcomes(st, tc, qc, lc, nc) ==
    [TECH_001 |-> TechnicalAnalysisAgent_analyze(st.symbol, st.name, tc.fetched, tc.d),
     QUANT_001 |-> QuantAnalysisAgent_analyze(NoScores, st.symbol, st.name,
                                              qc.fetched, qc.info),
     QUAL_001 |-> QualitativeAnalysisAgent_analyze(st.symbol, st.name, lc.fetched,
                                                   lc.info),
     NEWS_001 |-> NewsSentimentAgent_analyze(st.symbol, st.name, nc.fetched, nc.nw,
                                             nc.pd)]

\* What yfinance can make the four calls do for each stock: run on its own,
\* and inside a batch run.
Level1Outcomes ==
    [st \in Stocks |->
        {Outcomes(st, tc, qc, lc, nc) :
            tc \in TechCases, qc \in QuantCases, lc \in QualCases, nc \in NewsCases}]

BatchOutcomes ==
    [st \in Stocks |->
        {Outcomes(st, tc, qc, lc, nc) :
            tc \in TechBatchCases, qc \in QuantBatchCases, lc \in QualBatchCases,
            nc \in NewsBatchCases}]

\* The calls that were made, and what each did.
Trace(st, o) ==
    /\ l1_symbol' = st.symbol
    /\ \E run \in {agents_run(o.TECH_001, o.QUANT_001, o.QUAL_001, o.NEWS_001)} :
          /\ l1_invoked' = run
          /\ l1_outcome' = [i \in DOMAIN run |-> o[run[i]]]

\* main() of test_level1_all.py: one call of run_all_level1_agents.
RunAllLevel1Agents ==
    /\ batch_pc = "idle"
    /\ l1_result = NoResult
    /\ \E st \in Stocks :
          \E o \in Level1Outcomes[st] :
              /\ Trace(st, o)
              /\ l1_result' = run_all_level1_agents(st.symbol, st.name,
                                  o.TECH_001, o.QUANT_001, o.QUAL_001, o.NEWS_001)
    /\ UNCHANGED <<scorerVars, orcVars, batch_prog, batch_stocks, batch_results,
                   batch_final, batch_pc>>

BatchProgs == {"daily_level1_batch", "daily_level1_fdr", "daily_level1_fullmarket"}

\* The head of main / run_batch / run_full_analysis: the stock list is set up
\* and `results` is empty.
BatchStart ==
    /\ batch_pc = "idle"
    /\ l1_result = NoResult
    /\ \E prog \in BatchProgs, stocks \in BatchLists :
          /\ batch_prog' = prog
          /\ batch_stocks' = stocks
    /\ batch_results' = <<>>
    /\ batch_pc' = "loop"
    /\ UNCHANGED <<scorerVars, orcVars, l1_symbol, l1_invoked, l1_outcome, l1_result,
                   batch_final>>

\* The loop of prog has a stock left.
InLoop(prog) ==
    /\ batch_pc = "loop"
    /\ batch_prog = prog
    /\ Len(batch_results) < Len(batch_stocks)

\* The stock of this turn, with the data yfinance returns for it.
Turns ==
    LET stock == batch_stocks[Len(batch_results) + 1]
    IN  {[stock |-> stock, o |-> o] :
            o \in BatchOutcomes[[symbol |-> stock.symbol, name |-> stock.name]]}

\* One turn of the loop: result = analyze_stock(stock); results.append(result).
\* The loop has no handler of its own: an exception leaving analyze_stock
\* would end the run.
LoopTurn(r) ==
    /\ IF IsException(r)
       THEN batch_pc' = "crashed" /\ UNCHANGED batch_results
       ELSE batch_results' = Append(batch_results, r) /\ UNCHANGED batch_pc
    /\ UNCHANGED <<scorerVars, orcVars, l1_result, batch_prog, batch_stocks,
                   batch_final>>

BatchAnalyzeStock ==
    /\ InLoop("daily_level1_batch")
    /\ \E t \in Turns :
          /\ Trace(t.stock, t.o)
          /\ \E r \in {batch_analyze_stock(t.stock, t.o.TECH_001, t.o.QUANT_001,
                                           t.o.QUAL_001, t.o.NEWS_001)} :
                LoopTurn(r)

FdrAnalyzeStock ==
    /\ InLoop("daily_level1_fdr")
    /\ \E t \in Turns :
          /\ Trace(t.stock, t.o)
          /\ \E r \in {fdr_analyze_stock(t.stock, t.o.TECH_001, t.o.QUANT_001,
                                         t.o.QUAL_001, t.o.NEWS_001)} :
                LoopTurn(r)

FullmarketAnalyzeStock ==
    /\ InLoop("daily_level1_fullmarket")
    /\ \E t \in Turns :
          /\ Trace(t.stock, t.o)
          /\ \E r \in {fullmarket_analyze_stock(t.stock, t.o.TECH_001,
                           t.o.QUANT_001, t.o.QUAL_001, t.o.NEWS_001)} :
                LoopTurn(r)

\* len([r for r in results if r.get('status') == 'success'])
\* A count that takes every entry for a success.
success_count_all(results) == Len(results)

\* len([r for r in results if r.get('status') == 'success'])
success_count(results) ==
    Cardinality({i \in DOMAIN results : Get(results[i], "status", "") = "success"})

\* The tail of the runners: `final` is built and written.
BatchFinish ==
    /\ batch_pc = "loop"
    /\ Len(batch_results) = Len(batch_stocks)
    /\ batch_final' =
          IF batch_prog = "daily_level1_fullmarket"
          THEN [total |-> Len(batch_stocks),
                success |-> success_count(batch_results),
                failed |-> Len(batch_stocks) - success_count(batch_results),
                results |-> batch_results]
          ELSE [total |-> Len(batch_stocks),
                success |-> success_count(batch_results),
                results |-> batch_results]
    /\ batch_pc' = "done"
    /\ UNCHANGED <<scorerVars, orcVars, l1_symbol, l1_invoked, l1_outcome, l1_result,
                   batch_prog, batch_stocks, batch_results>>

Level1Next ==
    \/ RunAllLevel1Agents
    \/ BatchStart
    \/ BatchAnalyzeStock
    \/ FdrAnalyzeStock
    \/ FullmarketAnalyzeStock
    \/ BatchFinish

SpecLevel1 == Init /\ [][Level1Next]_vars

\* The runners are sequential programs: a step that can be taken is taken.
SpecLevel1Live == Init /\ [][Level1Next]_vars /\ WF_vars(Level1Next)

(***************************************************************************)
(* The three-level orchestrator (agent_orchestrator.py) and the spawner     *)
(* (agent_spawner.py).  Both read agent_group_config.json; an agent of the  *)
(* file is kept with its id, name and role (the roles in English), and the  *)
(* prompt texts, ids made of the clock, and timestamps are left out.        *)
(***************************************************************************)
level1_agents == <<"TECH_001", "QUANT_001", "QUAL_001", "NEWS_001">>
level2_agents == <<"SECTOR_001", "MACRO_001">>

AgentName ==
    [TECH_001 |-> "Technical Analyst", QUANT_001 |-> "Quant Analyst",
     QUAL_001 |-> "Qualitative Analyst", NEWS_001 |-> "News Sentiment Analyst",
     SECTOR_001 |-> "Sector Analyst", MACRO_001 |-> "Macro Analyst",
     PM_001 |-> "Portfolio Manager"]

AgentRole ==
    [TECH_001 |-> "technical analyst", QUANT_001 |-> "quantitative analyst",
     QUAL_001 |-> "qualitative analyst", NEWS_001 |-> "news sentiment analyst",
     SECTOR_001 |-> "sector analyst", MACRO_001 |-> "macro analyst",
     PM_001 |-> "portfolio manager"]

\* The agents of the configuration that _load_or_create_config builds.
DefaultAgents ==
    {[id |-> a, name |-> AgentName[a], role |-> AgentRole[a]] : a \in DOMAIN AgentName}

\* The agents a configuration file on disk may lack.
MissingSamples ==
    {{}, {"TECH_001"}, {"TECH_001", "QUANT_001", "QUAL_001", "NEWS_001"},
     {"SECTOR_001"}, {"PM_001"}}

\* agent_group_config.json: absent, or present with some of the agents.
ConfigFiles ==
    {[exists |-> FALSE, agents |-> {}]} \cup
    {[exists |-> TRUE, agents |-> {ag \in DefaultAgents : ag.id \notin missing}] :
        missing \in MissingSamples}

\* AgentOrchestrator._load_config: open() raises when the file is absent.
load_config(file) ==
    IF file.exists THEN [agents |-> file.agents] ELSE Exception("FileNotFoundError")

\* InvestmentAgentGroup._load_or_create_config
load_or_create_config(file) ==
    IF file.exists THEN [agents |-> file.agents] ELSE [agents |-> DefaultAgents]

\* The agent is in the configuration (_get_agent_info / get_agent return a
\* non-empty dict).
Found(agents, agent_id) == \E ag \in agents : ag.id = agent_id

\* AgentOrchestrator._get_agent_info and InvestmentAgentGroup.get_agent, for
\* an agent that is found.
get_agent(agents, agent_id) == CHOOSE ag \in agents : ag.id = agent_id

\* An entry that is marked as done as soon as it is built.
PendingEntry_completed(agents, agent_id) ==
    [agent_name |-> get_agent(agents, agent_id).name,
     agent_role |-> get_agent(agents, agent_id).role,
     status |-> "completed",
     result |-> NoneV]

\* An entry of the orchestrator; agent['name'] raises KeyError on the empty
\* dict of an agent that is not found.
PendingEntry(agents, agent_id) ==
    [agent_name |-> get_agent(agents, agent_id).name,
     agent_role |-> get_agent(agents, agent_id).role,
     status |-> "pending",
     result |-> NoneV]

\* A run_level1_analysis that leaves out the agents it does not find.
run_level1_analysis_lenient(agents, symbol, name) ==
    [a \in {level1_agents[i] : i \in {j \in 1..4 : Found(agents, level1_agents[j])}}
        |-> PendingEntry(agents, a)]

\* AgentOrchestrator.run_level1_analysis
run_level1_analysis(agents, symbol, name) ==
    IF \E i \in 1..4 : ~Found(agents, level1_agents[i])
    THEN Exception("KeyError")
    ELSE [a \in {level1_agents[i] : i \in 1..4} |-> PendingEntry(agents, a)]

\* AgentOrchestrator.run_level2_analysis
run_level2_analysis(agents, symbol, name, level1_results) ==
    IF \E i \in 1..2 : ~Found(agents, level2_agents[i])
    THEN Exception("KeyError")
    ELSE [a \in {level2_agents[i] : i \in 1..2} |->
            PendingEntry(agents, a) @@ [level1_input |-> level1_results]]

\* AgentOrchestrator.run_level3_decision
run_level3_decision(agents, symbol, name, level1_results, level2_results) ==
    IF ~Found(agents, "PM_001")
    THEN Exception("KeyError")
    ELSE [PM_001 |-> PendingEntry(agents, "PM_001") @@
                        [level1_input |-> level1_results,
                         level2_input |-> level2_results]]

\* AgentSpawner.spawn_agent
spawn_agent(agents, agent_id, symbol, name) ==
    IF ~Found(agents, agent_id)
    THEN [error |-> "Agent " \o agent_id \o " not found"]
    ELSE [agent_id |-> agent_id,
          agent_name |-> get_agent(agents, agent_id).name,
          symbol |-> symbol,
          name |-> name,
          status |-> "spawned"]

\* AgentSpawner.run_level1_parallel
run_level1_parallel(agents, symbol, name) ==
    [i \in 1..4 |-> spawn_agent(agents, level1_agents[i], symbol, name)]

\* AgentSpawner.run_level2_parallel: the context reads r['agent_name'],
\* r['symbol'] and r['status'] of every Level 1 entry.
ContextRaises(level1_results) ==
    \E j \in DOMAIN level1_results :
        {"agent_name", "symbol", "status"} \ DOMAIN level1_results[j] # {}

run_level2_parallel(agents, symbol, name, level1_results) ==
    IF ContextRaises(level1_results)
    THEN Exception("KeyError")
    ELSE LET context ==
                [level1_summary |->
                    [j \in DOMAIN level1_results |->
                        [agent |-> level1_results[j].agent_name,
                         symbol |-> level1_results[j].symbol,
                         status |-> level1_results[j].status]]]
         IN  [i \in 1..2 |->
                [context |-> context] @@
                spawn_agent(agents, level2_agents[i], symbol, name)]

\* AgentSpawner.run_level3_final
run_level3_final(agents, symbol, name, level1_results, level2_results) ==
    [inputs |-> [level1_count |-> Len(level1_results),
                 level2_count |-> Len(level2_results)]] @@
    spawn_agent(agents, "PM_001", symbol, name)

\* InvestmentAgentGroup.generate_analysis_request: the workflow of a request.
generate_analysis_request(symbol, name) ==
    [symbol |-> symbol,
     name |-> name,
     workflow |->
        <<[level |-> 1, agents |-> level1_agents, parallel |-> TRUE],
          [level |-> 2, agents |-> level2_agents, parallel |-> TRUE,
           depends_on |-> <<1>>],
          [level |-> 3, agents |-> <<"PM_001">>, parallel |-> FALSE,
           depends_on |-> <<1, 2>>]>>]

\* The stocks of a batch file: two listed symbols, a symbol with a path
\* separator, and an entry without a name.
OrcStocks ==
    {[symbol |-> "005930.KS", name |-> "Samsung Electronics"],
     [symbol |-> "000660.KS", name |-> "SK Hynix"],
     [symbol |-> "BRK/B", name |-> "Berkshire Hathaway"],
     [symbol |-> "035420.KS"]}

\* symbol.replace('.', '_')
replace_dot(symbol) ==
    CASE symbol = "005930.KS" -> "005930_KS"
      [] symbol = "000660.KS" -> "000660_KS"
      [] symbol = "035420.KS" -> "035420_KS"
      [] OTHER -> symbol

\* open(output_file, 'w') finds the directory of the file: with a path
\* separator in the stem the file lies in a directory that does not exist.
CanOpen(stem) == stem \notin {"BRK/B"}

OrcBatches ==
    {q \in UNION {[1..n -> OrcStocks] : n \in 0..MaxBatch} :
        \A i, j \in DOMAIN q : i # j => q[i].symbol # q[j].symbol}

\* An uncaught exception ends the program.
Crash(e) ==
    /\ orc_pc' = "crashed"
    /\ orc_error' = e.exception

\* A call of a level function with its arguments.
Call(fn, level1_results, level2_results) ==
    [fn |-> fn, symbol |-> orc_stocks[orc_idx].symbol,
     level1_results |-> level1_results, level2_results |-> level2_results]

\* main() of agent_orchestrator.py with --batch, up to the loop: the
\* orchestrator is constructed, then the batch file is read.
OrchestratorMain ==
    /\ orc_pc = "idle"
    /\ \E file \in ConfigFiles, stocks \in OrcBatches :
          /\ config_file' = file
          /\ IF IsException(load_config(file))
             THEN /\ Crash(load_config(file))
                  /\ UNCHANGED <<orc_config, orc_stocks>>
             ELSE /\ orc_config' = load_config(file).agents
                  /\ orc_stocks' = stocks
                  /\ orc_pc' = "loop"
                  /\ UNCHANGED orc_error
    /\ orc_prog' = "agent_orchestrator"
    /\ UNCHANGED <<scorerVars, level1Vars, orc_idx, level_1, level_2, level_3,
                   orc_calls, orc_files>>

\* main() of agent_spawner.py with --batch, up to the loop; the group
\* writes the default configuration when the file is absent.
SpawnerMain ==
    /\ orc_pc = "idle"
    /\ \E file \in ConfigFiles, stocks \in OrcBatches :
          /\ config_file' = [exists |-> TRUE,
                              agents |-> load_or_create_config(file).agents]
          /\ orc_config' = load_or_create_config(file).agents
          /\ orc_stocks' = stocks
    /\ orc_prog' = "agent_spawner"
    /\ orc_pc' = "loop"
    /\ UNCHANGED <<scorerVars, level1Vars, orc_idx, level_1, level_2, level_3,
                   orc_calls, orc_files, orc_error>>

\* The head of the loop of main: the next stock is taken and its keys are
\* read (stock['name'], stock['symbol']), or the loop ends.
NextStock(prog) ==
    /\ orc_prog = prog
    /\ orc_pc = "loop"
    /\ IF orc_idx = Len(orc_stocks)
       THEN /\ orc_pc' = "exit"
            /\ UNCHANGED <<orc_idx, orc_error>>
       ELSE /\ orc_idx' = orc_idx + 1
            /\ IF {"symbol", "name"} \subseteq DOMAIN orc_stocks[orc_idx + 1]
               THEN orc_pc' = "level1" /\ UNCHANGED orc_error
               ELSE Crash(Exception("KeyError"))
    /\ level_1' = NoResult
    /\ level_2' = NoResult
    /\ level_3' = NoResult
    /\ UNCHANGED <<scorerVars, level1Vars, orc_prog, config_file, orc_config,
                   orc_stocks, orc_calls, orc_files>>

\* for stock in stocks (agent_orchestrator.main)
OrchestratorNextStock ==
    /\ orc_pc = "loop"
    /\ NextStock("agent_orchestrator")

\* for stock in batch['stocks'] (agent_spawner.main)
SpawnerNextStock ==
    /\ orc_pc = "loop"
    /\ NextStock("agent_spawner")

\* A level step whose result is also stored over the Level 1 results it
\* was given.
LevelStep_overwriting(prog, pc, call, raised, r, next_pc) ==
    /\ orc_prog = prog
    /\ orc_pc = pc
    /\ orc_calls' = Append(orc_calls, call)
    /\ IF raised
       THEN /\ Crash(r)
            /\ UNCHANGED <<level_1, level_2, level_3>>
       ELSE /\ orc_pc' = next_pc
            /\ level_1' = IF pc \in {"level1", "level2"} THEN r ELSE level_1
            /\ level_2' = IF pc = "level2" THEN r ELSE level_2
            /\ level_3' = IF pc = "level3" THEN r ELSE level_3
            /\ UNCHANGED orc_error
    /\ UNCHANGED <<scorerVars, level1Vars, orc_prog, config_file, orc_config,
                   orc_stocks, orc_idx, orc_files>>

\* A level function is called and returns r, or raises r.
LevelStep(prog, pc, call, raised, r, next_pc) ==
    /\ orc_prog = prog
    /\ orc_pc = pc
    /\ orc_calls' = Append(orc_calls, call)
    /\ IF raised
       THEN /\ Crash(r)
            /\ UNCHANGED <<level_1, level_2, level_3>>
       ELSE /\ orc_pc' = next_pc
            /\ level_1' = IF pc = "level1" THEN r ELSE level_1
            /\ level_2' = IF pc = "level2" THEN r ELSE level_2
            /\ level_3' = IF pc = "level3" THEN r ELSE level_3
            /\ UNCHANGED orc_error
    /\ UNCHANGED <<scorerVars, level1Vars, orc_prog, config_file, orc_config,
                   orc_stocks, orc_idx, orc_files>>

\* run_full_analysis: level1_results = self.run_level1_analysis(symbol, name)
OrchestratorRunLevel1 ==
    /\ orc_pc = "level1"
    /\ LevelStep("agent_orchestrator", "level1",
                 Call("run_level1_analysis", NoResult, NoResult),
                 IsException(run_level1_analysis(orc_config, orc_stocks[orc_idx].symbol,
                                                 orc_stocks[orc_idx].name)),
                 run_level1_analysis(orc_config, orc_stocks[orc_idx].symbol,
                                     orc_stocks[orc_idx].name),
                 "level2")

\* level2_results = self.run_level2_analysis(symbol, name, level1_results)
OrchestratorRunLevel2 ==
    /\ orc_pc = "level2"
    /\ LevelStep("agent_orchestrator", "level2",
                 Call("run_level2_analysis", level_1, NoResult),
                 IsException(run_level2_analysis(orc_config, orc_stocks[orc_idx].symbol,
                                                 orc_stocks[orc_idx].name, level_1)),
                 run_level2_analysis(orc_config, orc_stocks[orc_idx].symbol,
                                     orc_stocks[orc_idx].name, level_1),
                 "level3")

\* level3_results = self.run_level3_decision(symbol, name, level1_results,
\* level2_results)
OrchestratorRunLevel3 ==
    /\ orc_pc = "level3"
    /\ LevelStep("agent_orchestrator", "level3",
                 Call("run_level3_decision", level_1, level_2),
                 IsException(run_level3_decision(orc_config, orc_stocks[orc_idx].symbol,
                                                 orc_stocks[orc_idx].name, level_1, level_2)),
                 run_level3_decision(orc_config, orc_stocks[orc_idx].symbol,
                                     orc_stocks[orc_idx].name, level_1, level_2),
                 "save")

\* run_full_pipeline: the three calls of the spawner.
SpawnerRunLevel1 ==
    /\ orc_pc = "level1"
    /\ LevelStep("agent_spawner", "level1",
                 Call("run_level1_parallel", NoResult, NoResult),
                 FALSE,
                 run_level1_parallel(orc_config, orc_stocks[orc_idx].symbol,
                                     orc_stocks[orc_idx].name),
                 "level2")

SpawnerRunLevel2 ==
    /\ orc_pc = "level2"
    /\ LevelStep("agent_spawner", "level2",
                 Call("run_level2_parallel", level_1, NoResult),
                 ContextRaises(level_1),
                 run_level2_parallel(orc_config, orc_stocks[orc_idx].symbol,
                                     orc_stocks[orc_idx].name, level_1),
                 "level3")

SpawnerRunLevel3 ==
    /\ orc_pc = "level3"
    /\ LevelStep("agent_spawner", "level3",
                 Call("run_level3_final", level_1, level_2),
                 FALSE,
                 run_level3_final(orc_config, orc_stocks[orc_idx].symbol,
                                  orc_stocks[orc_idx].name, level_1, level_2),
                 "save")

\* The result is built and written to its file; back to the loop of main.
Save(prog, prefix, stem, content) ==
    /\ orc_prog = prog
    /\ orc_pc = "save"
    /\ IF CanOpen(stem)
       THEN /\ orc_files' = Append(orc_files, [path |-> prefix \o stem,
                                               content |-> content])
            /\ orc_pc' = "loop"
            /\ UNCHANGED orc_error
       ELSE /\ Crash(Exception("FileNotFoundError"))
            /\ UNCHANGED orc_files
    /\ UNCHANGED <<scorerVars, level1Vars, orc_prog, config_file, orc_config,
                   orc_stocks, orc_idx, level_1, level_2, level_3, orc_calls>>

\* The tail of AgentOrchestrator.run_full_analysis.
OrchestratorSave ==
    /\ orc_pc = "save"
    /\ Save("agent_orchestrator", "", replace_dot(orc_stocks[orc_idx].symbol),
            [symbol |-> orc_stocks[orc_idx].symbol,
             name |-> orc_stocks[orc_idx].name,
             level_1 |-> level_1,
             level_2 |-> level_2,
             level_3 |-> level_3,
             status |-> "completed"])

\* The tail of AgentSpawner.run_full_pipeline.
SpawnerSave ==
    /\ orc_pc = "save"
    /\ Save("agent_spawner", "pipeline_", replace_dot(orc_stocks[orc_idx].symbol),
            [symbol |-> orc_stocks[orc_idx].symbol,
             name |-> orc_stocks[orc_idx].name,
             stages |->
                [level1 |-> [agents_spawned |-> Len(level_1), agents |-> level_1],
                 level2 |-> [agents_spawned |-> Len(level_2), agents |-> level_2],
                 level3 |-> [agents_spawned |-> 1, agent |-> level_3]],
             total_agents |-> Len(level_1) + Len(level_2) + 1,
             status |-> "pipeline_initialized"])

OrchestratorNext ==
    \/ OrchestratorMain
    \/ OrchestratorNextStock
    \/ OrchestratorRunLevel1
    \/ OrchestratorRunLevel2
    \/ OrchestratorRunLevel3
    \/ OrchestratorSave
    \/ SpawnerMain
    \/ SpawnerNextStock
    \/ SpawnerRunLevel1
    \/ SpawnerRunLevel2
    \/ SpawnerRunLevel3
    \/ SpawnerSave

SpecOrchestrator == Init /\ [][OrchestratorNext]_vars

(***************************************************************************)
(* A scorer object and the data yfinance serves for its symbol.  The data   *)
(* is chosen at the first fetch and stays as it is: a later analyze(), on   *)
(* the same object or on a new one, fetches the same data again.            *)
(***************************************************************************)
\* The rows of ticker.history(period='6mo') and of
\* ticker.history(period='30d'), and the calls of analyze() on one set of
\* served data.
MaxDays == 125
MaxPriceRows == 22
MaxRuns == 2

\* info with the keys of K missing (tag "absent") or present with None.
Blank(info, K, tag) ==
    [k \in DOMAIN info |->
        IF k \notin K THEN info[k]
        ELSE IF "v" \in DOMAIN info[k] THEN [tag |-> tag, v |-> 0]
        ELSE [tag |-> tag, s |-> ""]]

\* The dictionaries of the cases with no key, one key or every key blanked.
Blanked(cases) ==
    UNION {{Blank(c.info, K, tag) :
               K \in {{}} \cup {{k} : k \in DOMAIN c.info} \cup {DOMAIN c.info},
               tag \in {"absent", "None"}} :
           c \in cases}

\* A history of `days` rows leaves at most days - 59 rows to dropna(): the
\* first 59 rows have no MA60.
TechServed ==
    {[fetch |-> "raises", days |-> 0, data |-> <<>>]}
    \cup UNION {{[fetch |-> "ok", days |-> n, data |-> [c.d EXCEPT !.rows = r]] :
                    r \in {0, Max(0, n - 59)},
                    c \in {c \in TechCases : c.fetched /\ c.d.rows = 40}} :
                n \in 0..MaxDays}

QuantServed ==
    {[fetch |-> "raises", data |-> <<>>]}
    \cup {[fetch |-> "ok", data |-> info] : info \in Blanked(QuantCases)}

QualServed ==
    {[fetch |-> "raises", data |-> <<>>]}
    \cup {[fetch |-> "ok", data |-> info] : info \in Blanked(QualCases)}

\* News lists: three items, an item with a None title, no item, and twelve
\* items with every event of analyze_event_risk twice.
NewsServed ==
    {[fetch |-> "raises", data |-> <<>>]}
    \cup {[fetch |-> "ok", data |-> [nw |-> nw, pd |-> [c.pd EXCEPT !.len = n]]] :
             nw \in {NewsBaseList,
                     [NewsBaseList EXCEPT !.none_title = TRUE],
                     [NewsBaseList EXCEPT !.n = 0, !.positive = 0],
                     [NewsBaseList EXCEPT !.n = 12, !.earnings = 2,
                                          !.offering = 2, !.lawsuit = 2,
                                          !.executive = 2]},
             n \in 0..MaxPriceRows,
             c \in {c \in NewsCases : c.fetched /\ c.pd.volatility = 6}}

\* A fetch that does not look at the history it got.
technical_fetch_data_unchecked(s) == s.fetch = "ok"

\* fetch_data of TechnicalAnalysisAgent: False when the download raises and
\* when the history is empty.
technical_fetch_data(s) == s.fetch = "ok" /\ s.days > 0

\* fetch_data of the other three scorers: False when the download raises.
fetch_data(s) == s.fetch = "ok"

\* self.scores after analyze(): the score of each scoring function is stored
\* when the function has returned, until one of them raises.
scores_stored(scores, keys, outs) ==
    LET done == {i \in DOMAIN outs : \A j \in 1..i : ~outs[j].raised}
    IN  store_scores(scores,
            [k \in {keys[i] : i \in done} |->
                outs[CHOOSE i \in done : keys[i] = k].score])

\* __init__(symbol, name)
NewAgent(cls, symbol, name) ==
    [cls |-> cls, symbol |-> symbol, name |-> name, data |-> NoData,
     scores |-> NoScores, runs |-> 0]

\* A new object, and a symbol nothing was fetched for yet.
Construct ==
    /\ \E cls \in ScorerClasses, st \in Stocks :
          agent' = NewAgent(cls, st.symbol, st.name)
    /\ served' = NoData
    /\ returned' = <<>>
    /\ UNCHANGED <<scorer, result, scoringVars, level1Vars, orcVars>>

\* A new object of the same class for the same symbol.
Reconstruct ==
    /\ agent.runs >= 1
    /\ Len(returned) < MaxRuns
    /\ agent' = NewAgent(agent.cls, agent.symbol, agent.name)
    /\ UNCHANGED <<served, returned, scorer, result, scoringVars, level1Vars, orcVars>>

\* One call of analyze(): s is what the fetch gets, r what the call returns,
\* scores what it leaves in self.scores.
Run(cls, feed, s, r, scores) ==
    /\ agent.cls = cls
    /\ Len(returned) < MaxRuns
    /\ s \in (IF served = NoData THEN feed ELSE {served})
    /\ served' = s
    /\ returned' = Append(returned, r)
    /\ agent' = [agent EXCEPT !.runs = @ + 1,
                              !.data = IF s.fetch = "ok" THEN s ELSE @,
                              !.scores = scores]
    /\ UNCHANGED <<scorer, result, scoringVars, level1Vars, orcVars>>

TechnicalRun ==
    /\ agent.cls = "TechnicalAnalysisAgent"
    /\ \E s \in TechServed :
          Run("TechnicalAnalysisAgent", TechServed, s,
              TechnicalAnalysisAgent_analyze(agent.symbol, agent.name,
                  technical_fetch_data(s), s.data),
              agent.scores)

QuantRun ==
    /\ agent.cls = "QuantAnalysisAgent"
    /\ \E s \in QuantServed :
          Run("QuantAnalysisAgent", QuantServed, s,
              QuantAnalysisAgent_analyze(agent.scores, agent.symbol, agent.name,
                  fetch_data(s), s.data),
              IF ~fetch_data(s) THEN agent.scores
              ELSE scores_stored(agent.scores,
                       <<"profitability", "growth", "stability", "valuation">>,
                       <<analyze_profitability(s.data), analyze_growth(s.data),
                         analyze_stability(s.data), analyze_valuation(s.data)>>))

QualitativeRun ==
    /\ agent.cls = "QualitativeAnalysisAgent"
    /\ \E s \in QualServed :
          Run("QualitativeAnalysisAgent", QualServed, s,
              QualitativeAnalysisAgent_analyze(agent.symbol, agent.name,
                  fetch_data(s), s.data),
              IF ~fetch_data(s) THEN agent.scores
              ELSE scores_stored(agent.scores,
                       <<"business_model", "management", "industry_outlook",
                         "risk_factors">>,
                       <<analyze_business_model(s.data),
                         analyze_management(s.data),
                         analyze_industry_outlook(s.data),
                         analyze_risk_factors(s.data)>>))

NewsRun ==
    /\ agent.cls = "NewsSentimentAgent"
    /\ \E s \in NewsServed :
          Run("NewsSentimentAgent", NewsServed, s,
              NewsSentimentAgent_analyze(agent.symbol, agent.name,
                  fetch_data(s), s.data.nw, s.data.pd),
              IF ~fetch_data(s) THEN agent.scores
              ELSE scores_stored(agent.scores,
                       <<"news_sentiment", "social_media", "event_risk",
                         "momentum_signals">>,
                       <<analyze_news_sentiment(s.data.nw),
                         analyze_social_media(s.data.pd),
                         analyze_event_risk(s.data.nw),
                         analyze_momentum_signals(s.data.pd)>>))

AgentNext ==
    \/ Construct
    \/ Reconstruct
    \/ TechnicalRun
    \/ QuantRun
    \/ QualitativeRun
    \/ NewsRun

SpecAgent == Init /\ [][AgentNext]_vars

(***************************************************************************)
(* The scoring functions of a new scorer object, one call at a time (the    *)
(* object is left for a new one after the call).  called.arg holds what the *)
(* function reads: for the Technical scorer the cells of the frame it       *)
(* looks at, for the others the info dictionary, the news list or the       *)
(* price rows of the object.                                                *)
(***************************************************************************)
TechScore ==
    /\ scorer.cls = "TechnicalAnalysisAgent"
    /\ called = NoCall
    /\ \E r \in RowsSamples :
          \/ \E p \in PriceFields :
                /\ called' = [fn |-> "analyze_price_trend", arg |-> [rows |-> r] @@ p]
                /\ out' = analyze_price_trend([rows |-> r] @@ p)
          \/ \E m \in MomentumFields :
                /\ called' = [fn |-> "analyze_momentum", arg |-> [rows |-> r] @@ m]
                /\ out' = analyze_momentum([rows |-> r] @@ m)
          \/ \E b \in BollingerFields(96) \cup BollingerFields(104),
                   a \in [MA20 : {100}, prevMA20 : {99, 101}] :
                /\ called' = [fn |-> "analyze_bollinger",
                              arg |-> [rows |-> r] @@ a @@ b]
                /\ out' = analyze_bollinger([rows |-> r] @@ a @@ b)
          \/ \E v \in VolumeFields :
                /\ called' = [fn |-> "analyze_volume", arg |-> [rows |-> r] @@ v]
                /\ out' = analyze_volume([rows |-> r] @@ v)
    /\ UNCHANGED <<scorer, result, agentVars, level1Vars, orcVars>>

QuantScore ==
    /\ scorer.cls = "QuantAnalysisAgent"
    /\ called = NoCall
    /\ \E info \in QuantInfos,
          fn \in {"analyze_profitability", "analyze_growth",
                  "analyze_stability", "analyze_valuation"} :
          /\ called' = [fn |-> fn, arg |-> info]
          /\ out' = CASE fn = "analyze_profitability" -> analyze_profitability(info)
                      [] fn = "analyze_growth" -> analyze_growth(info)
                      [] fn = "analyze_stability" -> analyze_stability(info)
                      [] fn = "analyze_valuation" -> analyze_valuation(info)
    /\ UNCHANGED <<scorer, result, agentVars, level1Vars, orcVars>>

\* The values of the four keys analyze_risk_factors reads: a missing key and
\* numbers below, at and above each of its breakpoints.
RiskValues ==
    [beta : {Absent, Num(90), Num(100), Num(110), Num(120), Num(150), Num(160)},
     debtToEquity : {Absent, Num(0), Num(50), Num(100), Num(150), Num(200),
                     Num(250)},
     revenueGrowth : {Absent, Num(-20), Num(-10), Num(-5), Num(0), Num(10)},
     currentRatio : {Absent, Num(50), Num(80), Num(90), Num(100), Num(150)}]

QualScore ==
    /\ scorer.cls = "QualitativeAnalysisAgent"
    /\ called = NoCall
    /\ \/ \E info \in QualInfos,
             fn \in {"analyze_business_model", "analyze_management",
                     "analyze_industry_outlook", "analyze_risk_factors"} :
             /\ called' = [fn |-> fn, arg |-> info]
             /\ out' = CASE fn = "analyze_business_model" ->
                                analyze_business_model(info)
                         [] fn = "analyze_management" -> analyze_management(info)
                         [] fn = "analyze_industry_outlook" ->
                                analyze_industry_outlook(info)
                         [] fn = "analyze_risk_factors" ->
                                analyze_risk_factors(info)
       \/ \E info \in RiskValues :
             /\ called' = [fn |-> "analyze_risk_factors", arg |-> info]
             /\ out' = analyze_risk_factors(info)
    /\ UNCHANGED <<scorer, result, agentVars, level1Vars, orcVars>>

\* News lists of fifteen items with every event type in none, one or two of
\* the titles.
EventLists ==
    {[n |-> 15, positive |-> 0, negative |-> 0, none_title |-> FALSE] @@ counts :
        counts \in [earnings : 0..2, dividend : 0..2, meeting : 0..2,
                    offering : 0..2, lawsuit : 0..2, executive : 0..2]}

NewsScore ==
    /\ scorer.cls = "NewsSentimentAgent"
    /\ called = NoCall
    /\ \/ \E nw \in NewsLists :
             \/ /\ called' = [fn |-> "analyze_news_sentiment", arg |-> nw]
                /\ out' = analyze_news_sentiment(nw)
             \/ /\ called' = [fn |-> "analyze_event_risk", arg |-> nw]
                /\ out' = analyze_event_risk(nw)
       \/ \E nw \in EventLists :
             /\ called' = [fn |-> "analyze_event_risk", arg |-> nw]
             /\ out' = analyze_event_risk(nw)
       \/ \E pd \in PriceData :
             \/ /\ called' = [fn |-> "analyze_social_media", arg |-> pd]
                /\ out' = analyze_social_media(pd)
             \/ /\ called' = [fn |-> "analyze_momentum_signals", arg |-> pd]
                /\ out' = analyze_momentum_signals(pd)
    /\ UNCHANGED <<scorer, result, agentVars, level1Vars, orcVars>>

ScoringNext ==
    \/ NewScorer
    \/ TechScore
    \/ QuantScore
    \/ QualScore
    \/ NewsScore

SpecScoring == Init /\ [][ScoringNext]_vars

(***************************************************************************)
(* Properties of the scorers, checked under Spec.                           *)
(***************************************************************************)
\* analyze() returned an analysis (not the fetch-failure dict, no exception).
IsAnalysis(r) == "total_score" \in DOMAIN r

RECURSIVE SumOver(_, _)
SumOver(f, keys) ==
    IF keys = {} THEN 0
    ELSE LET k == CHOOSE k \in keys : TRUE
         IN  f[k] + SumOver(f, keys \ {k})

\* C1: every analysis returned by analyze() of the four scorers has a
\* breakdown of four values, a total_score equal to their sum, and a
\* total_score between 0 and 100.
C1_TotalIsSumOfBreakdown ==
    IsAnalysis(result) =>
        /\ Cardinality(DOMAIN result.breakdown) = 4
        /\ result.total_score = SumOver(result.breakdown, DOMAIN result.breakdown)
        /\ 0 <= result.total_score /\ result.total_score <= 100

\* The technical scorer returned 100 with a price-trend score cut down to 25
\* (28 points before the cap).
C1_Witness ==
    /\ IsAnalysis(result)
    /\ result.agent_id = "TECH_001"
    /\ result.total_score = 100
    /\ result.breakdown.price_trend = 25

\* The ladder the four scorers are said to share.
Ladder(total) ==
    IF total >= 70 THEN "BUY" ELSE IF total >= 50 THEN "HOLD" ELSE "SELL"

\* C2: the recommendation of every analysis follows the ladder
\* (>= 70 BUY, 50..69 HOLD, < 50 SELL), the four scorers agree on every
\* total in 0..100, and the boundaries 100, 70, 69, 50, 49, 0 fall as stated.
C2_SameLadder ==
    /\ IsAnalysis(result) => result.recommendation = Ladder(result.total_score)
    /\ \A t \in 0..100 :
          /\ technical_recommendation(t) = Ladder(t)
          /\ quant_recommendation(t) = Ladder(t)
          /\ qualitative_recommendation(t) = Ladder(t)
          /\ news_recommendation(t) = Ladder(t)
    /\ Ladder(100) = "BUY" /\ Ladder(70) = "BUY"
    /\ Ladder(69) = "HOLD" /\ Ladder(50) = "HOLD"
    /\ Ladder(49) = "SELL" /\ Ladder(0) = "SELL"

\* The news scorer returned exactly 70 and recommends BUY.
C2_Witness ==
    /\ IsAnalysis(result)
    /\ result.agent_id = "NEWS_001"
    /\ result.total_score = 70
    /\ result.recommendation = "BUY"

\* C17: every sub-score of an analysis, of whichever scorer, is an integer
\* from 0 to 25.
C17_SubScoresInRange ==
    IsAnalysis(result) =>
        \A k \in DOMAIN result.breakdown : result.breakdown[k] \in 0..25

\* The subtractive ladder of the Qualitative scorer with every deduction at
\* once (8 + 7 + 6 + 4 = 25).
C17_Witness ==
    /\ IsAnalysis(result)
    /\ result.agent_id = "QUAL_001"
    /\ result.breakdown.risk_factors = 0
    /\ Len(result.key_risks) = 3

(***************************************************************************)
(* Properties of Level 1, checked under SpecLevel1 (C8: SpecLevel1Live).    *)
(***************************************************************************)
\* run_all_level1_agents returned its result dict.
HasSummary(r) == "summary" \in DOMAIN r

\* analyze() returned the failure dict.
IsFailure(r) == "error" \in DOMAIN r

\* The recommendations recorded for the four agents that equal rec.
Votes(r, rec) ==
    Cardinality({a \in DOMAIN r.agents : r.agents[a].recommendation = rec})

\* The consensus the priority order gives.
PriorityConsensus(buy, sell) ==
    CASE buy >= 3 -> "STRONG BUY"
      [] buy = 2 -> "BUY"
      [] buy < 2 /\ sell >= 2 -> "SELL"
      [] OTHER -> "HOLD"

\* The total_score of the analyses among the outcomes, by position.
Totals(outcome) ==
    [i \in {j \in DOMAIN outcome : IsAnalysis(outcome[j])} |-> outcome[i].total_score]

\* C3: the summary of run_all_level1_agents counts the recorded
\* recommendations as votes and derives the consensus in priority order:
\* three BUY votes give STRONG BUY, else two give BUY, else two SELL votes
\* give SELL, else HOLD; (4,0,0) gives STRONG BUY, (2,1,1) BUY, (0,1,3)
\* SELL, (1,3,0) HOLD, a 2-2 split of BUY and SELL gives BUY, and the totals
\* 80, 65, 55, 90 give two BUY votes, two HOLD votes and BUY.
C3_ConsensusPriority ==
    /\ HasSummary(l1_result) =>
          LET s == l1_result.summary
          IN  /\ s.buy_votes = Votes(l1_result, "BUY")
              /\ s.hold_votes = Votes(l1_result, "HOLD")
              /\ s.sell_votes = Votes(l1_result, "SELL")
              /\ s.consensus = PriorityConsensus(s.buy_votes, s.sell_votes)
              /\ (s.buy_votes = 2 /\ s.sell_votes = 2) => s.consensus = "BUY"
              /\ Totals(l1_outcome) = <<80, 65, 55, 90>> =>
                    /\ s.buy_votes = 2 /\ s.hold_votes = 2 /\ s.sell_votes = 0
                    /\ s.consensus = "BUY"
    /\ consensus_of(4, 0) = "STRONG BUY"
    /\ consensus_of(2, 1) = "BUY"
    /\ consensus_of(0, 3) = "SELL"
    /\ consensus_of(1, 0) = "HOLD"
    /\ consensus_of(2, 2) = "BUY"

\* The four scorers returned 80, 65, 55 and 90 and the consensus is BUY on
\* two BUY and two HOLD votes.
C3_Witness ==
    /\ HasSummary(l1_result)
    /\ Totals(l1_outcome) = <<80, 65, 55, 90>>
    /\ l1_result.summary.buy_votes = 2
    /\ l1_result.summary.hold_votes = 2
    /\ l1_result.summary.consensus = "BUY"

\* C4: the average_score of the Level 1 summary is the mean of total_score
\* over the scorers whose analyze() returned an analysis; a scorer that
\* returned a failure counts neither in the sum nor in the divisor.
C4_MeanOverSuccessful ==
    (HasSummary(l1_result) /\ DOMAIN Totals(l1_outcome) # {}) =>
        l1_result.summary.average_score =
            round1(SumOver(Totals(l1_outcome), DOMAIN Totals(l1_outcome)),
                   Cardinality(DOMAIN Totals(l1_outcome)))

\* All four analyze() calls of the last Level 1 run returned a failure.
AllFailed ==
    /\ Len(l1_outcome) = 4
    /\ \A i \in DOMAIN l1_outcome : IsFailure(l1_outcome[i])

\* C5: when all four analyze() calls return a failure, the Level 1 result of
\* the symbol is 'failed', with no average and no consensus, no exception is
\* raised, and the batch goes on.
C5_AllFailedIsFailed ==
    AllFailed =>
        /\ l1_result # NoResult =>
              /\ ~IsException(l1_result)
              /\ ~HasSummary(l1_result)
              /\ Get(l1_result, "status", "") = "failed"
        /\ batch_results # <<>> =>
              /\ batch_results[Len(batch_results)].status = "failed"
              /\ "avg_score" \notin DOMAIN batch_results[Len(batch_results)]
        /\ batch_pc # "crashed"

\* One entry per stock so far, in the order of the list, each with a status;
\* an entry with status 'error' carries the message.
OneEntryPerStock ==
    /\ Len(batch_results) <= Len(batch_stocks)
    /\ \A i \in DOMAIN batch_results :
          /\ batch_results[i].symbol = batch_stocks[i].symbol
          /\ Get(batch_results[i], "status", "") \in {"success", "error"}
          /\ batch_results[i].status = "error" =>
                Get(batch_results[i], "error", "") # ""

\* An analyze() call of the last stock raised.
LastRaised ==
    /\ l1_outcome # <<>>
    /\ IsException(l1_outcome[Len(l1_outcome)])

\* What holds of a batch run at every moment: it has not been ended by an
\* exception, the entries are as above, the stock whose analysis raised is
\* recorded with 'error' and the message of the exception, and a finished
\* run has an entry for every stock and has written them all.
BatchSafe ==
    /\ batch_pc # "crashed"
    /\ OneEntryPerStock
    /\ (batch_results # <<>> /\ LastRaised) =>
          /\ batch_results[Len(batch_results)].status = "error"
          /\ batch_results[Len(batch_results)].error =
                str(l1_outcome[Len(l1_outcome)])
    /\ batch_pc = "done" =>
          /\ Len(batch_results) = Len(batch_stocks)
          /\ batch_final.results = batch_results
          /\ batch_final.total = Len(batch_stocks)

\* C8: a Level 1 batch run always completes, whichever analyses raise: it
\* is never ended by an exception, every stock of the list gets exactly one
\* entry, in input order, with status 'success' or 'error', a stock whose
\* analysis raised is recorded with 'error' and a message, and the run that
\* has started reaches its end.
C8_BatchCompletes ==
    /\ []BatchSafe
    /\ (batch_pc = "loop") ~> (batch_pc = "done")

\* A finished run of two stocks: the analysis of the first raised and is
\* recorded with 'error', the second is a success.
C8_Witness ==
    /\ batch_pc = "done"
    /\ Len(batch_final.results) = 2
    /\ batch_final.results[1].status = "error"
    /\ batch_final.results[1].error = "TypeError"
    /\ batch_final.results[2].status = "success"
    /\ batch_final.success = 1

\* The entry recorded for scorer a of the last Level 1 run.
Contribution(a) ==
    LET key == [TECH_001 |-> "TECH", QUANT_001 |-> "QUANT", QUAL_001 |-> "QUAL",
                NEWS_001 |-> "NEWS"]
    IN  IF HasSummary(l1_result) THEN Get(l1_result.agents, a, NoResult)
        ELSE IF batch_results # <<>>
        THEN Get(batch_results[Len(batch_results)].agents, key[a], NoResult)
        ELSE NoResult

\* C10: in Level 1 of one symbol the error of one scorer does not keep the
\* others from running: all four are run, the contribution of the scorer
\* that failed is marked failed, and the others are aggregated.
C10_ErrorDoesNotBlockSiblings ==
    l1_symbol # "" =>
        /\ l1_invoked = <<"TECH_001", "QUANT_001", "QUAL_001", "NEWS_001">>
        /\ \A i \in DOMAIN l1_outcome :
              ~IsAnalysis(l1_outcome[i]) =>
                  Get(Contribution(l1_invoked[i]), "status", "") = "failed"
        /\ DOMAIN Totals(l1_outcome) # {} =>
              /\ l1_result # NoResult => HasSummary(l1_result)
              /\ batch_results # <<>> =>
                    "avg_score" \in DOMAIN batch_results[Len(batch_results)]

\* The entries of the summary's results with status 'success'.
SuccessEntries(final) ==
    {i \in DOMAIN final.results :
        /\ "status" \in DOMAIN final.results[i]
        /\ final.results[i].status = "success"}

\* C16: in the summary a batch runner has written, total is the number of
\* result entries, success the number of entries with status 'success',
\* and for the full-market runner success + failed = total.
C16_SummaryCounts ==
    batch_final # NoResult =>
        /\ batch_final.total = Len(batch_final.results)
        /\ batch_final.success = Cardinality(SuccessEntries(batch_final))
        /\ batch_prog = "daily_level1_fullmarket" =>
              batch_final.success + batch_final.failed = batch_final.total

\* The full-market runner wrote a summary of two entries, one a success and
\* one an error.
C16_Witness ==
    /\ batch_prog = "daily_level1_fullmarket"
    /\ batch_final # NoResult
    /\ Len(batch_final.results) = 2
    /\ batch_final.success = 1
    /\ batch_final.failed = 1

\* The agents of a batch entry that recommend rec.
BatchVotes(entry, rec) ==
    Cardinality({a \in DOMAIN entry.agents : entry.agents[a].rec = rec})

\* C18: the consensus of every entry the FDR and the full-market runner
\* appended follows the priority rule on the entry's own recommendations
\* (three BUY, two BUY, two SELL, else HOLD), as run_all_level1_agents does.
C18_BatchConsensusFollowsRule ==
    batch_prog \in {"daily_level1_fdr", "daily_level1_fullmarket"} =>
        \A i \in DOMAIN batch_results :
            "consensus" \in DOMAIN batch_results[i] =>
                batch_results[i].consensus =
                    PriorityConsensus(BatchVotes(batch_results[i], "BUY"),
                                      BatchVotes(batch_results[i], "SELL"))

(***************************************************************************)
(* Properties of the orchestrator and the spawner, checked under            *)
(* SpecOrchestrator.                                                        *)
(***************************************************************************)
\* The level a function belongs to.
LevelOf(fn) ==
    CASE fn \in {"run_level1_analysis", "run_level1_parallel"} -> 1
      [] fn \in {"run_level2_analysis", "run_level2_parallel"} -> 2
      [] fn \in {"run_level3_decision", "run_level3_final"} -> 3

\* The results hold an entry for each of the n agents of the level: by id
\* in the orchestrator, by position in the spawner.
HasAllEntries(results, ids) ==
    IF orc_prog = "agent_orchestrator"
    THEN DOMAIN results = {ids[i] : i \in DOMAIN ids}
    ELSE DOMAIN results = DOMAIN ids

\* C6: for each symbol the levels are entered in the order 1, 2, 3, none
\* skipped and none entered twice; Level 2 is called with an entry for each
\* of the four Level 1 agents, Level 3 with an entry for both Level 2 agents,
\* a result marked completed is written only after the Level 3 call of its
\* symbol, and the workflow of a request makes each level depend on all
\* the levels before it.
C6_LevelsInOrder ==
    /\ \A i \in DOMAIN orc_calls :
          /\ LevelOf(orc_calls[i].fn) = ((i - 1) % 3) + 1
          /\ orc_calls[i].symbol = orc_stocks[((i - 1) \div 3) + 1].symbol
          /\ LevelOf(orc_calls[i].fn) >= 2 =>
                HasAllEntries(orc_calls[i].level1_results, level1_agents)
          /\ LevelOf(orc_calls[i].fn) = 3 =>
                HasAllEntries(orc_calls[i].level2_results, level2_agents)
    /\ \A k \in DOMAIN orc_files :
          orc_files[k].content.status = "completed" =>
              /\ 3 * k <= Len(orc_calls)
              /\ LevelOf(orc_calls[3 * k].fn) = 3
              /\ orc_calls[3 * k].symbol = orc_files[k].content.symbol
    /\ orc_pc \in {"level2", "level3", "save"} => level_1 # NoResult
    /\ \A st \in OrcStocks :
          LET workflow == generate_analysis_request(st.symbol, "").workflow
          IN  \A i \in DOMAIN workflow :
                 /\ workflow[i].level = i
                 /\ Get(workflow[i], "depends_on", <<>>) = [j \in 1..(i - 1) |-> j]
    /\ orc_pc \in {"level3", "save"} => level_2 # NoResult
    /\ orc_pc = "save" => level_3 # NoResult

\* The orchestrator has gone through two stocks: six calls, two results
\* marked completed.
C6_Witness ==
    /\ orc_prog = "agent_orchestrator"
    /\ orc_pc = "exit"
    /\ Len(orc_calls) = 6
    /\ Len(orc_files) = 2
    /\ orc_files[2].content.status = "completed"
    /\ DOMAIN orc_files[2].content.level_1 =
          {"TECH_001", "QUANT_001", "QUAL_001", "NEWS_001"}

\* A Level 1 entry that is not an error: the agent was found and its entry
\* made ('pending' in the orchestrator, 'spawned' in the spawner).
Succeeded(entry) == "error" \notin DOMAIN entry

\* C7: Level 2 and Level 3 are called for a symbol only when at least one of
\* its Level 1 agents has succeeded.
C7_Level2NeedsLevel1Success ==
    \A i \in DOMAIN orc_calls :
        LevelOf(orc_calls[i].fn) >= 2 =>
            \E k \in DOMAIN orc_calls[i].level1_results :
                Succeeded(orc_calls[i].level1_results[k])

\* The pipeline of the stock can run to its end: the entry has both keys,
\* its file can be opened, and the configuration has every agent.
Sound(stock) ==
    /\ {"symbol", "name"} \subseteq DOMAIN stock
    /\ CanOpen(replace_dot(stock.symbol))
    /\ \A a \in DOMAIN AgentName : Found(orc_config, a)

\* C9: in batch mode the failure of the pipeline of one stock does not keep
\* the stocks after it from running to completion.
C9_LaterSymbolsStillRun ==
    (orc_pc = "crashed" /\ orc_idx >= 1) =>
        \A j \in (orc_idx + 1)..Len(orc_stocks) :
            Sound(orc_stocks[j]) =>
                \E k \in DOMAIN orc_files :
                    orc_files[k].content.symbol = orc_stocks[j].symbol

(***************************************************************************)
(* Properties of a scorer object and its served data, checked under         *)
(* SpecAgent.                                                               *)
(***************************************************************************)
\* The call of analyze() that returned last.
LastReturned == returned[Len(returned)]

\* The served dictionary holds a key that is missing or present with None.
HasBlank(info) == \E k \in DOMAIN info : info[k].tag \in {"absent", "None"}

\* C11: when the fetch succeeded and fields of the fetched data are missing
\* or present with None, analyze() is not left by an exception raised in a
\* scoring function: it returns an analysis.  (A price history of 10 to 19
\* rows, which raises for another reason, is set aside.)
C11_BlankFieldNeverRaises ==
    (/\ returned # <<>>
     /\ served.fetch = "ok"
     /\ \/ agent.cls \in {"QuantAnalysisAgent", "QualitativeAnalysisAgent"}
           /\ HasBlank(served.data)
        \/ agent.cls = "NewsSentimentAgent"
           /\ served.data.nw.none_title
           /\ served.data.pd.len \notin 10..19)
    => IsAnalysis(LastReturned)

\* C13: every call of analyze() on the same served data returns the same
\* value, on the same object (whatever the earlier call left in self.scores
\* and self.data) and on a new object of the class.
C13_SameDataSameResult ==
    \A i, j \in DOMAIN returned : returned[i] = returned[j]

\* The Quant scorer has returned a second analysis on the same object.
C13_Witness ==
    /\ agent.cls = "QuantAnalysisAgent"
    /\ agent.runs = 2
    /\ agent.scores # NoScores
    /\ Len(returned) = 2
    /\ IsAnalysis(returned[2])

\* The fetch of the served data fails: the download raises, or the
\* Technical scorer gets an empty history.
FetchFails ==
    \/ served.fetch = "raises"
    \/ /\ agent.cls = "TechnicalAnalysisAgent"
       /\ served.fetch = "ok"
       /\ served.days = 0

\* C19: when the fetch fails, analyze() returns the failure dict: the
\* 'error' marker with the symbol and the name and no other key (no
\* total_score, breakdown or recommendation); no scoring function has
\* stored a score, and the call is not left by an exception.
C19_FetchFailureIsReturned ==
    (returned # <<>> /\ FetchFails) =>
        /\ DOMAIN LastReturned = {"error", "symbol", "name"}
        /\ LastReturned.error = "Failed to fetch data"
        /\ LastReturned.symbol = agent.symbol
        /\ LastReturned.name = agent.name
        /\ agent.scores = NoScores

\* The Technical scorer has run on an empty history.
C19_Witness ==
    /\ agent.cls = "TechnicalAnalysisAgent"
    /\ served.fetch = "ok"
    /\ served.days = 0
    /\ agent.runs = 1
    /\ Len(returned) = 1

\* C20: on a fetched price history of any length, the Technical and the
\* News scorer are not left by an exception: analyze() returns (the analysis,
\* or the failure dict for an empty Technical history).
C20_ShortHistoryNeverRaises ==
    (/\ returned # <<>>
     /\ served.fetch = "ok"
     /\ \/ agent.cls = "TechnicalAnalysisAgent"
        \/ agent.cls = "NewsSentimentAgent" /\ ~served.data.nw.none_title)
    => ~IsException(LastReturned)

(***************************************************************************)
(* Further properties of the orchestrator and the spawner, checked under    *)
(* SpecOrchestrator.                                                        *)
(***************************************************************************)
\* The Level 3 decision holds a result that is not None (the orchestrator's
\* entry of PM_001), or a classification of its own.
CarriesClassification(decision) ==
    \/ /\ "PM_001" \in DOMAIN decision
       /\ decision.PM_001.result # NoneV
    \/ "classification" \in DOMAIN decision

\* C12: once Level 3 has returned its decision for a symbol, the decision
\* carries a final classification (Long, Neutral or Short).
C12_DecisionCarriesClassification ==
    level_3 # NoResult => CarriesClassification(level_3)

\* C14: a program whose loaded configuration lacks one of the seven agent
\* ids calls no level function: Level 1 is started for no symbol.
C14_BadConfigStartsNoLevel1 ==
    (/\ orc_prog # "none"
     /\ \E a \in DOMAIN AgentName : ~Found(orc_config, a))
    => orc_calls = <<>>

\* The written artifact describes a run in a terminal state: its status is
\* completed or failed, and its Level 3 agent is no longer pending.
ArtifactTerminal(content) ==
    /\ content.status \in {"completed", "failed"}
    /\ "level_3" \in DOMAIN content => content.level_3.PM_001.status # "pending"

\* C15: every per-symbol artifact on disk was written for a run in a
\* terminal state.
C15_ArtifactOnlyWhenTerminal ==
    \A i \in DOMAIN orc_files : ArtifactTerminal(orc_files[i].content)

(***************************************************************************)
(* Further properties of a scorer object and its served data, checked       *)
(* under SpecAgent.                                                         *)
(***************************************************************************)
\* analyze() has returned an analysis of fetched data.
Analysed(cls) ==
    /\ returned # <<>>
    /\ agent.cls = cls
    /\ served.fetch = "ok"
    /\ IsAnalysis(LastReturned)

\* Every key of the served dictionary is missing.
AllAbsent(info) == \A k \in DOMAIN info : info[k].tag = "absent"

\* C21: a sub-dimension all of whose inputs are missing scores below its
\* maximum of 25: every sub-score of Quant and of Qualitative on an info
\* dictionary without any key, and news_sentiment and event_risk of News on
\* an empty news list.
C21_MissingInputsScoreBelowMax ==
    /\ (Analysed("QuantAnalysisAgent") /\ AllAbsent(served.data)) =>
          \A k \in DOMAIN LastReturned.breakdown : LastReturned.breakdown[k] < 25
    /\ (Analysed("QualitativeAnalysisAgent") /\ AllAbsent(served.data)) =>
          \A k \in DOMAIN LastReturned.breakdown : LastReturned.breakdown[k] < 25
    /\ (Analysed("NewsSentimentAgent") /\ served.data.nw.n = 0) =>
          /\ LastReturned.breakdown.news_sentiment < 25
          /\ LastReturned.breakdown.event_risk < 25

(***************************************************************************)
(* Properties of the scoring functions, checked under SpecScoring.          *)
(***************************************************************************)
\* The call of the scoring function fn has returned.
Returned(fn) == called.fn = fn /\ ~out.raised

Has(lst, x) == \E i \in DOMAIN lst : lst[i] = x

\* C22: for every combination of event-keyword counts, analyze_event_risk
\* adds the signal that there is no special event risk exactly when it took
\* no deduction, which is exactly when the score it returns is 25.
C22_NoRiskSignalIffNoDeduction ==
    Returned("analyze_event_risk") =>
        /\ Has(out.signals, "no special event risk") <=> out.points = 25
        /\ Has(out.signals, "no special event risk") <=> out.score = 25
        /\ Has(out.signals, "no special event risk") <=> out.risks = <<>>

\* Event news without a deduction: one earnings title, a dividend and a
\* management title give three signals, and the fourth says there is no risk.
C22_Witness ==
    /\ Returned("analyze_event_risk")
    /\ called.arg.earnings = 1 /\ called.arg.dividend = 1
    /\ called.arg.executive = 1
    /\ out.score = 25
    /\ Len(out.signals) = 4
    /\ Has(out.signals, "no special event risk")

\* C23: in every scoring function the points summed before the clamp of
\* the return statement lie in 0..25, so that the clamp changes nothing; in
\* particular analyze_price_trend never sums to more than 25.
C23_ClampNeverChangesAValue ==
    (called # NoCall /\ ~out.raised) =>
        /\ out.points \in 0..25
        /\ out.score = out.points

\* The number a key of the info dictionary stands for: its value, or the
\* default of the read when the key is missing.
NumberOf(info, key, default) ==
    IF info[key].tag = "absent" THEN default ELSE info[key].v

\* The four inputs of analyze_risk_factors as numbers (beta, debt-to-equity
\* and current ratio in hundredths, revenue growth in percent).
RiskInputs(info) ==
    [beta |-> NumberOf(info, "beta", 100),
     debtToEquity |-> NumberOf(info, "debtToEquity", 0),
     revenueGrowth |-> NumberOf(info, "revenueGrowth", 0),
     currentRatio |-> NumberOf(info, "currentRatio", 100)]

IsNumeric(info) ==
    \A k \in {"beta", "debtToEquity", "revenueGrowth", "currentRatio"} :
        info[k].tag \in {"num", "absent"}

\* Values each input is moved to.
RiskSteps == {-20, -10, -5, 0, 10, 50, 80, 90, 100, 110, 120, 150, 160, 200, 250}

\* The score of analyze_risk_factors with one input moved to v.
RiskScoreAt(info, key, v) ==
    analyze_risk_factors([info EXCEPT ![key] = Num(v)]).score

\* C24: analyze_risk_factors on numbers (a missing key counts as its
\* default) returns 25 less deductions, never more than 25; with the other
\* inputs fixed its score does not rise when beta or debt-to-equity rises
\* and does not fall when revenue growth or the current ratio rises; and it
\* is 25 exactly when beta < 1.0, debt-to-equity < 100, revenue growth >= 0
\* and current ratio >= 1.0.
C24_RiskFactorsInvertedLadder ==
    (Returned("analyze_risk_factors") /\ IsNumeric(called.arg)) =>
        LET x == RiskInputs(called.arg)
        IN  /\ out.score \in 0..25
            /\ \A v \in RiskSteps :
                  /\ v >= x.beta =>
                        RiskScoreAt(called.arg, "beta", v) <= out.score
                  /\ v >= x.debtToEquity =>
                        RiskScoreAt(called.arg, "debtToEquity", v) <= out.score
                  /\ v >= x.revenueGrowth =>
                        RiskScoreAt(called.arg, "revenueGrowth", v) >= out.score
                  /\ v >= x.currentRatio =>
                        RiskScoreAt(called.arg, "currentRatio", v) >= out.score
            /\ out.score = 25 <=>
                  /\ x.beta < 100
                  /\ x.debtToEquity < 100
                  /\ x.revenueGrowth >= 0
                  /\ x.currentRatio >= 100

\* A call with every input in its middle band: 25 - 5 - 4 - 3 - 2.
C24_Witness ==
    /\ Returned("analyze_risk_factors")
    /\ IsNumeric(called.arg)
    /\ RiskInputs(called.arg) = [beta |-> 120, debtToEquity |-> 100,
                                 revenueGrowth |-> -5, currentRatio |-> 90]
    /\ out.score = 11
    /\ Len(out.risks) = 4

(***************************************************************************)
(* Further properties of Level 1, checked under SpecLevel1.                 *)
(***************************************************************************)
\* The four calls of analyze() for the symbol all returned.
AllFourReturned ==
    /\ Len(l1_outcome) = 4
    /\ \A i \in 1..4 : ~IsException(l1_outcome[i])

\* The stock and the entry of the last turn of the batch loop.
LastStock == batch_stocks[Len(batch_results)]
LastEntry == batch_results[Len(batch_results)]

\* C25: the Level 1 summary of a symbol is there only when all four scorers
\* have returned (an analysis or the failure dict), and it is the same in
\* whichever order the four returns are handed to the aggregation: for
\* run_all_level1_agents the whole summary, for analyze_stock of the
\* full-market runner avg_score and consensus.
C25_SummaryIndependentOfOrder ==
    /\ HasSummary(l1_result) =>
          /\ AllFourReturned
          /\ \A p \in Permutations(1..4) :
                run_all_level1_agents(l1_symbol, l1_result.name,
                    l1_outcome[p[1]], l1_outcome[p[2]], l1_outcome[p[3]],
                    l1_outcome[p[4]]).summary = l1_result.summary
    /\ (/\ batch_prog = "daily_level1_fullmarket"
        /\ batch_results # <<>>
        /\ "avg_score" \in DOMAIN LastEntry) =>
          /\ AllFourReturned
          /\ l1_symbol = LastEntry.symbol
          /\ \A p \in Permutations(1..4) :
                LET r == fullmarket_analyze_stock(LastStock,
                             l1_outcome[p[1]], l1_outcome[p[2]],
                             l1_outcome[p[3]], l1_outcome[p[4]])
                IN  /\ r.avg_score = LastEntry.avg_score
                    /\ r.consensus = LastEntry.consensus

\* A summary over four different scores and three different votes.
C25_Witness ==
    /\ HasSummary(l1_result)
    /\ AllFourReturned
    /\ Cardinality({l1_result.agents[a].score : a \in DOMAIN l1_result.agents}) = 4
    /\ l1_result.summary.buy_votes = 2
    /\ l1_result.summary.hold_votes = 1
    /\ l1_result.summary.sell_votes = 1

(***************************************************************************)
(* Properties of the results handed from level to level, checked under      *)
(* SpecOrchestrator.                                                        *)
(***************************************************************************)
\* What the Level 1 and the Level 2 function of the running program return
\* for the stock of this turn.
Level1AsCreated ==
    IF orc_prog = "agent_orchestrator"
    THEN run_level1_analysis(orc_config, orc_stocks[orc_idx].symbol,
                             orc_stocks[orc_idx].name)
    ELSE run_level1_parallel(orc_config, orc_stocks[orc_idx].symbol,
                             orc_stocks[orc_idx].name)

Level2AsCreated ==
    IF orc_prog = "agent_orchestrator"
    THEN run_level2_analysis(orc_config, orc_stocks[orc_idx].symbol,
                             orc_stocks[orc_idx].name, level_1)
    ELSE run_level2_parallel(orc_config, orc_stocks[orc_idx].symbol,
                             orc_stocks[orc_idx].name, level_1)

\* C26: the Level 2 call leaves the Level 1 results as they are, and the
\* Level 3 call leaves the Level 1 and the Level 2 results as they are: up to
\* the save they are the values the Level 1 and the Level 2 function
\* returned.
C26_DownstreamLeavesUpstream ==
    [][/\ orc_pc = "level2" => level_1' = level_1
       /\ orc_pc = "level3" => (level_1' = level_1 /\ level_2' = level_2)
       /\ orc_pc' \in {"level3", "save"} => level_1' = Level1AsCreated'
       /\ orc_pc' = "save" => level_2' = Level2AsCreated']_vars

\* The three levels of a stock have run and their results await the save.
C26_Witness ==
    /\ orc_pc = "save"
    /\ level_1 # NoResult
    /\ level_2 # NoResult
    /\ level_3 # NoResult

(***************************************************************************)
(* Properties of the Level 1 votes and of the batch entries, checked under  *)
(* SpecLevel1.                                                              *)
(***************************************************************************)
\* The position of each scorer among the calls of run_all_level1_agents.
CallOf ==
    [TECH_001 |-> 1, QUANT_001 |-> 2, QUAL_001 |-> 3, NEWS_001 |-> 4]

\* C27: in every summary of run_all_level1_agents the BUY, HOLD and SELL
\* votes add up to 4, which is total_agents; a scorer whose analyze()
\* returned the failure dict is recorded with score 0 and recommendation
\* HOLD and so counts as one HOLD vote.
C27_VotesAddUpToFour ==
    HasSummary(l1_result) =>
        /\ l1_result.summary.total_agents = 4
        /\ l1_result.summary.buy_votes + l1_result.summary.hold_votes
              + l1_result.summary.sell_votes = 4
        /\ DOMAIN l1_result.agents = DOMAIN CallOf
        /\ \A a \in DOMAIN CallOf :
              IsFailure(l1_outcome[CallOf[a]]) =>
                 /\ l1_result.agents[a].score = 0
                 /\ l1_result.agents[a].recommendation = "HOLD"
        /\ l1_result.summary.hold_votes >=
              Cardinality({a \in DOMAIN CallOf : IsFailure(l1_outcome[CallOf[a]])})

\* Two of the four scorers failed to fetch; the other two voted BUY and SELL.
C27_Witness ==
    /\ HasSummary(l1_result)
    /\ Cardinality({i \in 1..4 : IsFailure(l1_outcome[i])}) = 2
    /\ l1_result.summary.buy_votes = 1
    /\ l1_result.summary.hold_votes = 2
    /\ l1_result.summary.sell_votes = 1

\* The keys of result['agents'] in the order the runners fill them in.
BatchKeys == <<"TECH", "QUANT", "QUAL", "NEWS">>

\* C28: in the three batch runners a per-symbol result has status 'success'
\* exactly when it holds an entry for each of TECH, QUANT, QUAL and NEWS
\* together with an avg_score; a result with status 'error' holds an error
\* message, no avg_score, and entries for the scorers that returned before
\* the exception and for no other: at most three.
C28_StatusMatchesEntries ==
    /\ \A i \in DOMAIN batch_results :
          LET e == batch_results[i]
              full == DOMAIN e.agents = {"TECH", "QUANT", "QUAL", "NEWS"}
          IN  /\ e.status \in {"success", "error"}
              /\ e.status = "success" <=> (full /\ "avg_score" \in DOMAIN e)
              /\ e.status = "error" =>
                    /\ "error" \in DOMAIN e
                    /\ "avg_score" \notin DOMAIN e
                    /\ \E n \in 0..3 :
                          DOMAIN e.agents = {BatchKeys[k] : k \in 1..n}
    /\ (batch_results # <<>> /\ batch_pc = "loop") =>
          /\ LastEntry.status = "error" <=> IsException(l1_outcome[Len(l1_outcome)])
          /\ LastEntry.status = "error" =>
                DOMAIN LastEntry.agents =
                    {BatchKeys[k] : k \in 1..(Len(l1_outcome) - 1)}

\* An error entry of the FDR runner holding the three scorers that returned
\* before the News scorer raised.
C28_Witness ==
    /\ batch_prog = "daily_level1_fdr"
    /\ batch_pc = "loop"
    /\ batch_results # <<>>
    /\ LastEntry.status = "error"
    /\ LastEntry.error = "IndexError"
    /\ DOMAIN LastEntry.agents = {"TECH", "QUANT", "QUAL"}

(***************************************************************************)
(* A property of the Technical scorer on a short history, checked under     *)
(* SpecAgent.                                                               *)
(***************************************************************************)
\* C29: when the history of the Technical scorer is fetched but leaves
\* fewer than 20 complete rows, all four sub-scores are the default 12, the
\* total is 48 and the recommendation is SELL, which is the vote Level 1
\* records for the scorer.
C29_ShortHistoryVotesSell ==
    (/\ returned # <<>>
     /\ agent.cls = "TechnicalAnalysisAgent"
     /\ technical_fetch_data(served)
     /\ served.data.rows < 20) =>
        /\ IsAnalysis(LastReturned)
        /\ \A k \in DOMAIN LastReturned.breakdown : LastReturned.breakdown[k] = 12
        /\ Cardinality(DOMAIN LastReturned.breakdown) = 4
        /\ LastReturned.total_score = 48
        /\ LastReturned.recommendation = "SELL"
        /\ Get(LastReturned, "recommendation", "HOLD") = "SELL"

\* A history of 70 rows, 11 of them complete, was analysed.
C29_Witness ==
    /\ returned # <<>>
    /\ agent.cls = "TechnicalAnalysisAgent"
    /\ served.fetch = "ok"
    /\ served.days = 70
    /\ served.data.rows = 11
    /\ LastReturned.total_score = 48

(***************************************************************************)
(* A property of the artifact of the orchestrator, checked under            *)
(* SpecOrchestrator.                                                        *)
(***************************************************************************)
\* Every entry of a level result is pending and has no result.
AllPending(results) ==
    \A a \in DOMAIN results :
        results[a].status = "pending" /\ results[a].result = NoneV

\* C30: every artifact AgentOrchestrator.run_full_analysis has written and
\* returned has status 'completed', level_1 keyed by the four Level 1 agent
\* ids, level_2 by SECTOR_001 and MACRO_001, level_3 by PM_001, and each of
\* the seven entries has status 'pending' and result None.
C30_CompletedArtifactIsAllPending ==
    orc_prog = "agent_orchestrator" =>
        \A k \in DOMAIN orc_files :
            LET content == orc_files[k].content
            IN  /\ content.status = "completed"
                /\ DOMAIN content.level_1 =
                      {"TECH_001", "QUANT_001", "QUAL_001", "NEWS_001"}
                /\ DOMAIN content.level_2 = {"SECTOR_001", "MACRO_001"}
                /\ DOMAIN content.level_3 = {"PM_001"}
                /\ AllPending(content.level_1)
                /\ AllPending(content.level_2)
                /\ AllPending(content.level_3)

\* The orchestrator has written the artifacts of two stocks and left its
\* loop.
C30_Witness ==
    /\ orc_prog = "agent_orchestrator"
    /\ orc_pc = "exit"
    /\ Len(orc_files) = 2
    /\ orc_files[2].content.level_3.PM_001.status = "pending"
====
